---- MODULE Spec2Model ----
(***************************************************************************)
(* Batch-allocation orchestrator of ABS B&A (thread_b_and_a.py) with the   *)
(* create / assign helpers of newOrderValidation.py.                       *)
(*                                                                         *)
(* Strings are sequences of one-character strings, so that the csv         *)
(* handling of ordersBatched and DocNums is modelled by what it does.      *)
(* The remote service and the SQL mirror are an environment: every call    *)
(* returns one of the outcomes the code distinguishes, chosen freely.      *)
(* Failures of the parquet storage itself are not modelled.                *)
(***************************************************************************)
EXTENDS Integers, Sequences, FiniteSets, TLC

\* ------------------------------------------------------------------ bounds
MaxUnits == 2       \* rows of the batch table
MaxSOs == 2         \* sales orders of the whole batch table
MaxThreads == 2     \* num_threads handed to run_specificBatches_optimized
MaxLines == 2       \* work-order-lines of one remote order

BatchNameSeq == <<"B1", "B2">>
BatchNames == {BatchNameSeq[i] : i \in 1..Len(BatchNameSeq)}
Digits == <<"1", "2", "3", "4", "5", "6", "7", "8", "9">>
SOIds == 1..MaxSOs
\* str(docnum) of the i-th sales order of the batch table
SOName(i) == <<"S", Digits[i]>>
SONames == {SOName(i) : i \in SOIds}
SOId(name) == CHOOSE i \in SOIds : SOName(i) = name

Threads == 1..MaxThreads
\* history record of a thread that made no addOrderToBatch call for its order
NoCall == [called |-> FALSE, so |-> <<>>, batch |-> "", rank |-> 0, firstTries |-> 0,
           firstOK |-> FALSE, ret |-> FALSE, committed |-> FALSE]

\* batch_counts_lock is not held
Free == -1

\* no addOrderToBatch call is being followed step by step
NoAddCall == [pc |-> "none"]

\* ------------------------------------------------------- string helpers
IsSpace(c) == c = " "

RECURSIVE LStrip(_)
LStrip(s) == IF s # <<>> /\ IsSpace(Head(s)) THEN LStrip(Tail(s)) ELSE s

RECURSIVE RStrip(_)
RStrip(s) ==
  IF s # <<>> /\ IsSpace(s[Len(s)]) THEN RStrip(SubSeq(s, 1, Len(s) - 1)) ELSE s

\* str.strip()
Strip(s) == RStrip(LStrip(s))

RECURSIVE SplitAcc(_, _)
SplitAcc(s, cur) ==
  IF s = <<>> THEN <<cur>>
  ELSE IF Head(s) = "," THEN <<cur>> \o SplitAcc(Tail(s), <<>>)
  ELSE SplitAcc(Tail(s), Append(cur, Head(s)))

\* str.split(",")
Split(s) == SplitAcc(s, <<>>)

RECURSIVE Join(_)
\* ", ".join(items)
Join(items) ==
  IF items = <<>> THEN <<>>
  ELSE IF Len(items) = 1 THEN items[1]
  ELSE items[1] \o <<",", " ">> \o Join(Tail(items))

\* [s.strip() for s in csv.split(",") if s.strip()]
StripNonEmpty(csv) ==
  LET pieces == Split(csv)
      stripped == [i \in 1..Len(pieces) |-> Strip(pieces[i])]
  IN SelectSeq(stripped, LAMBDA x : x # <<>>)

InSeq(x, s) == \E i \in 1..Len(s) : s[i] = x

RECURSIVE AppendNew(_, _)
AppendNew(existing, new_items) ==
  IF new_items = <<>> THEN existing
  ELSE AppendNew(IF InSeq(Head(new_items), existing) THEN existing
                 ELSE Append(existing, Head(new_items)),
                 Tail(new_items))

\* _append_unique without the "x not in existing_set" test
_append_unique_NoCheck(csv_str, new_items) ==
  Join(StripNonEmpty(csv_str) \o new_items)

_append_unique(csv_str, new_items) ==
  Join(AppendNew(StripNonEmpty(csv_str), new_items))

\* the string branch: brackets removed, blank -> [], else split and strip
_safe_split_docnums(val) ==
  LET s == SelectSeq(val, LAMBDA c : c # "[" /\ c # "]")
  IN IF Strip(s) = <<>> THEN <<>> ELSE StripNonEmpty(s)

\* count = 0 if not new_csv.strip() else len([s for s in new_csv.split(",") if s.strip()])
CsvCount(csv) == IF Strip(csv) = <<>> THEN 0 ELSE Len(StripNonEmpty(csv))

\* ------------------------------------------------------------ batch table
RECURSIVE SumSeq(_)
SumSeq(s) == IF s = <<>> THEN 0 ELSE Head(s) + SumSeq(Tail(s))

SizeSeqs(n) == {sz \in [1..n -> 0..MaxSOs] : SumSeq(sz) <= MaxSOs}

\* the sales orders of row i: numbered through the table, top to bottom
UnitSOs(sz, i) ==
  [k \in 1..sz[i] |-> SOName(SumSeq(SubSeq(sz, 1, i - 1)) + k)]

\* DocNums as prepare_batches_for_ppg leaves it: ', '.join(map(str, docnums))
Tables ==
  UNION {{[i \in 1..n |-> [PPG_BatchName |-> nm[i], DocNums |-> Join(UnitSOs(sz, i))]]
            : nm \in [1..n -> BatchNames], sz \in SizeSeqs(n)}
         : n \in 1..MaxUnits}

NameRank(b) == CHOOSE i \in 1..Len(BatchNameSeq) : BatchNameSeq[i] = b

\* the due dates a batch table may carry
DueDates == {1, 2}

\* a batch table with the column minDocDueDate: two rows of one sales order each
DatedTables ==
  {[i \in 1..2 |-> [PPG_BatchName |-> nm[i], DocNums |-> Join(<<SOName(i)>>),
                    minDocDueDate |-> due[i]]]
     : nm \in [1..2 -> BatchNames], due \in [1..2 -> DueDates]}

\* 'minDocDueDate' in df_batches.columns
HasDueDate(t) == "minDocDueDate" \in DOMAIN t[1]

\* a sort that ignores the due date
SortKeyBefore_NameOnly(t, i, j) ==
  NameRank(t[i].PPG_BatchName) < NameRank(t[j].PPG_BatchName)

\* row i sorts strictly before row j: by=['minDocDueDate', 'PPG_BatchName'] when
\* the column is there, by=['PPG_BatchName'] otherwise, both ascending
SortKeyBefore(t, i, j) ==
  IF HasDueDate(t)
    THEN \/ t[i].minDocDueDate < t[j].minDocDueDate
         \/ /\ t[i].minDocDueDate = t[j].minDocDueDate
            /\ NameRank(t[i].PPG_BatchName) < NameRank(t[j].PPG_BatchName)
  ELSE NameRank(t[i].PPG_BatchName) < NameRank(t[j].PPG_BatchName)

\* df_batches.sort_values(by=[...], kind='stable'), as row numbers
SortedRows(t) ==
  LET n == Len(t)
      Before(i, j) == \/ SortKeyBefore(t, i, j)
                      \/ /\ ~SortKeyBefore(t, j, i)
                         /\ i < j
  IN CHOOSE s \in [1..n -> 1..n] :
       \A a, b \in 1..n : a < b => Before(s[a], s[b])

Min(a, b) == IF a < b THEN a ELSE b

\* -------------------------------------------------------------- the state
VARIABLES
  batches,              \* df_batches: the rows of the batch table
  num_threads,          \* argument of run_specificBatches_optimized
  q,                    \* the FIFO queue, as row numbers of batches
  pc,                   \* position of each worker
  row,                  \* the row a worker took from the queue
  so_list,              \* _safe_split_docnums(row['DocNums'])
  idx,                  \* position in so_list (1-based)
  current_rank,         \* the worker's cached next rank
  allocated_arr,        \* sales orders this worker added for its row
  batch_order_counts,   \* the ledger: batch name -> committed successes
  deferred_map,         \* batch name -> sales orders whose add failed
  deferred_create_map,  \* batch name -> sales orders whose create was HTTP 500
  shard,                \* abs_toPrintInSAP_<w>.parquet, as its rows
  df_errors,            \* the error frame of each thread
  errFile,              \* abs_toPrintInSAP_errors_<w>.parquet
  mpc,                  \* position of the main thread
  tq,                   \* entries of the running tail pass still to visit
  tcur,                 \* the tail entry whose add just succeeded
  success_map,          \* deferred_success_map / late_success_map of the pass
  combined,             \* abs_toPrintInSAP_toPrint.parquet
  combinedErr,          \* abs_toPrintInSAP_errors_toReview.parquet
  createReqs500,        \* history: POST /api/orders sent for a sales order whose
                        \*          main-pass create answered HTTP 500 (else 0)
  commits,              \* history: <<sales order, rank>> of the committed adds per batch
  fate,                 \* history: how a sales order last failed for good, if it did
  createHttp,           \* history: answer to the main-pass POST /api/orders of a sales
                        \*          order, when createOrder returned to the main pass
  traced,               \* whether this run keeps createHttp (it steers nothing else)
  dequeues,             \* history: how often each row of the table was taken off the queue
  addOK,                \* history: addOrderToBatch calls per batch that returned success
  tailVisits,           \* history: how often a tail pass took up a sales order
  addCalls,             \* history: addOrderToBatch calls made for a sales order
  tailSaw,                \* history: what a tail pass saw for its last entry
  call,                 \* position and locals of one addOrderToBatch call followed step by step
  lock,                 \* holder of batch_counts_lock: a thread, 0 the main thread, or Free
  cleanupSaw,           \* history: what just followed a cleanup out of rounds
  last                  \* history: the latest create/add of each thread (0 = main)

vars == <<batches, num_threads, q, pc, row, so_list, idx, current_rank,
          allocated_arr, batch_order_counts, deferred_map, deferred_create_map,
          shard, df_errors, errFile, mpc, tq, tcur, success_map, combined,
          combinedErr, createReqs500, commits, fate, createHttp, traced,
          dequeues, addOK, tailVisits, addCalls, tailSaw, call, lock,
          cleanupSaw, last>>

\* everything but the call that is followed step by step
mainVars == <<batches, num_threads, q, pc, row, so_list, idx, current_rank,
              allocated_arr, batch_order_counts, deferred_map, deferred_create_map,
              shard, df_errors, errFile, mpc, tq, tcur, success_map, combined,
              combinedErr, createReqs500, commits, fate, createHttp, traced,
              dequeues, addOK, tailVisits, addCalls, tailSaw, lock,
              cleanupSaw, last>>

\* and without the lock
mainVarsButLock == <<batches, num_threads, q, pc, row, so_list, idx, current_rank,
                     allocated_arr, batch_order_counts, deferred_map, deferred_create_map,
                     shard, df_errors, errFile, mpc, tq, tcur, success_map, combined,
                     combinedErr, createReqs500, commits, fate, createHttp, traced,
                     dequeues, addOK, tailVisits, addCalls, tailSaw,
                     cleanupSaw, last>>

workerVars == <<row, so_list, idx, current_rank, allocated_arr>>
tailVars == <<mpc, tq, tcur, success_map, combined, combinedErr>>
inputVars == <<batches, num_threads, traced>>

n_workers == Min(num_threads, Len(batches))
Workers == 1..n_workers
EmptyMap == [b \in BatchNames |-> <<>>]

InitWith(thread_counts, keep_history, calls, tables) ==
  /\ batches \in tables
  /\ num_threads \in thread_counts
  /\ traced = keep_history
  /\ q = SortedRows(batches)
  /\ pc = [w \in Threads |-> IF w <= n_workers THEN "idle" ELSE "off"]
  /\ row = [w \in Threads |-> 0]
  /\ so_list = [w \in Threads |-> <<>>]
  /\ idx = [w \in Threads |-> 0]
  /\ current_rank = [w \in Threads |-> 0]
  /\ allocated_arr = [w \in Threads |-> <<>>]
  /\ batch_order_counts = [b \in BatchNames |-> 0]
  /\ deferred_map = EmptyMap
  /\ deferred_create_map = EmptyMap
  /\ shard = [w \in Threads |-> <<>>]
  /\ df_errors = [w \in Threads |-> <<>>]
  /\ errFile = [w \in Threads |-> <<>>]
  /\ mpc = "pool"
  /\ tq = <<>>
  /\ tcur = <<>>
  /\ success_map = EmptyMap
  /\ combined = <<>>
  /\ combinedErr = <<>>
  /\ createReqs500 = [i \in SOIds |-> 0]
  /\ commits = EmptyMap
  /\ fate = [i \in SOIds |-> "none"]
  /\ createHttp = [i \in SOIds |-> "none"]
  /\ dequeues = [u \in 1..MaxUnits |-> 0]
  /\ addOK = [b \in BatchNames |-> 0]
  /\ tailVisits = [i \in SOIds |-> 0]
  /\ addCalls = [i \in SOIds |-> 0]
  /\ tailSaw = [wait |-> "none", ret |-> "none", raised |-> FALSE]
  /\ call \in calls
  /\ lock = Free
  /\ cleanupSaw = "none"
  /\ last = [t \in 0..MaxThreads |-> NoCall]

Init == InitWith(1..MaxThreads, FALSE, {NoAddCall}, Tables)

\* runs of one worker that keep the history of the create answers
InitTraced == InitWith({1}, TRUE, {NoAddCall}, Tables)

\* ------------------------------------------------- create: the environment
\* answers to POST /api/orders that createFullSOPickOrder tells apart
HttpOutcomes == {"2xx_json", "2xx_empty", "409", "504", "500", "other", "netexc"}

\* one run of the cleanup and createOrder: what each read and request answers
CreateEnvs ==
  {e \in [cleanup : {"absent", "cleaned", "timeout", "raise"},
          pre : {"visible", "hidden", "raise"},
          bom : BOOLEAN,
          http : HttpOutcomes \cup {"none"},
          grace : {"visible", "hidden", "raise", "none"},
          post : {"ok", "raise", "none"}] :
     \* fields that are never read are fixed, so that each path is listed once
     /\ e.cleanup = "raise" => e.pre = "raise"
     /\ e.pre # "hidden" => e.bom /\ e.http = "none"
     /\ (e.pre = "hidden" /\ ~e.bom) => e.http = "none"
     /\ (e.pre = "hidden" /\ e.bom) => e.http # "none"
     /\ (e.grace # "none") <=> (e.http \in {"504", "netexc"})
     /\ (e.post # "none") <=> (e.http # "none" /\ e.grace # "raise")}

\* the answers as the history keeps them: success, 409, 500, another HTTP
\* error status, and a gateway timeout or a network error as one class
HttpClass(h) ==
  CASE h \in {"2xx_json", "2xx_empty"} -> "2xx"
    [] h \in {"409", "500", "other"} -> h
    [] h \in {"504", "netexc"} -> "timeout"
    [] OTHER -> "none"

\* a client that answers every HTTP error status but 409 and 504 with the sentinel
createFullSOPickOrder_DeferAnyError(e) ==
  CASE e.http = "2xx_json" -> [ret |-> "Dict", raised |-> FALSE]
    [] e.http = "2xx_empty" -> [ret |-> "EmptyDict", raised |-> FALSE]
    [] e.http = "409" -> [ret |-> "True", raised |-> FALSE]
    [] e.http \in {"504", "netexc"} -> [ret |-> "True", raised |-> e.grace = "raise"]
    [] OTHER -> [ret |-> "Defer", raised |-> FALSE]

\* a client that reports a timed-out create as created only if the order became
\* visible within the grace window
createFullSOPickOrder_FailOnTimeout(e) ==
  CASE e.http = "2xx_json" -> [ret |-> "Dict", raised |-> FALSE]
    [] e.http = "2xx_empty" -> [ret |-> "EmptyDict", raised |-> FALSE]
    [] e.http = "409" -> [ret |-> "True", raised |-> FALSE]
    [] e.http \in {"504", "netexc"} ->
         [ret |-> IF e.grace = "visible" THEN "True" ELSE "False",
          raised |-> e.grace = "raise"]
    [] e.http = "500" -> [ret |-> "Defer", raised |-> FALSE]
    [] OTHER -> [ret |-> "False", raised |-> FALSE]

\* the value createFullSOPickOrder returns: a dict, {} , True, False or the sentinel
createFullSOPickOrder(e) ==
  CASE e.http = "2xx_json" -> [ret |-> "Dict", raised |-> FALSE]
    [] e.http = "2xx_empty" -> [ret |-> "EmptyDict", raised |-> FALSE]
    [] e.http = "409" -> [ret |-> "True", raised |-> FALSE]
    [] e.http \in {"504", "netexc"} -> [ret |-> "True", raised |-> e.grace = "raise"]
    [] e.http = "500" -> [ret |-> "Defer", raised |-> FALSE]
    [] OTHER -> [ret |-> "False", raised |-> FALSE]

\* createOrder that sends the request again at once when it is answered 500
createOrder_RetryOn500(e) ==
  IF e.pre = "raise" THEN [ret |-> "False", submitted |-> 0, raised |-> TRUE]
  ELSE IF e.pre = "visible" THEN [ret |-> "True", submitted |-> 0, raised |-> FALSE]
  ELSE IF ~e.bom THEN [ret |-> "False", submitted |-> 0, raised |-> FALSE]
  ELSE LET r == createFullSOPickOrder(e)
       IN [ret |-> r.ret, submitted |-> IF e.http = "500" THEN 2 ELSE 1,
           raised |-> r.raised \/ e.post = "raise"]

\* createOrder: pre-check, BOM filter, the request, the post-check snapshot
createOrder(e) ==
  IF e.pre = "raise" THEN [ret |-> "False", submitted |-> 0, raised |-> TRUE]
  ELSE IF e.pre = "visible" THEN [ret |-> "True", submitted |-> 0, raised |-> FALSE]
  ELSE IF ~e.bom THEN [ret |-> "False", submitted |-> 0, raised |-> FALSE]
  ELSE LET r == createFullSOPickOrder(e)
       IN [ret |-> r.ret, submitted |-> 1, raised |-> r.raised \/ e.post = "raise"]

\* a caller that does not know the sentinel
IsDefer_Never(created) == FALSE

\* isinstance(created, dict) and created.get("defer_create")
IsDefer(created) == created = "Defer"
\* bool(created)
Truthy(created) == created \in {"True", "Dict", "Defer"}

\* ---------------------------------------------------- add: the environment
LineOutcomes == {"ok1", "ok2", "fail"}   \* 200 at once, 200 on the 2nd try, never

AddEnvsUpTo(max_lines) ==
  {e \in [order : {"visible", "missing", "raise"},
          nLines : 0..max_lines,
          batch : {"ok", "timeout", "vanished", "raise", "none"},
          lines : UNION {[1..n -> LineOutcomes] : n \in 0..max_lines},
          refetch : {"same", "new", "later", "empty", "raise", "none"}] :
     /\ e.order # "visible" => e.nLines = 0
     /\ (e.batch = "none") <=> (e.nLines = 0)
     /\ Len(e.lines) = (IF e.batch = "ok" THEN e.nLines ELSE 0)
     /\ e.batch \in {"timeout", "vanished", "raise"} => e.nLines = 1
     /\ (e.refetch # "none") <=> (e.lines # <<>> /\ e.lines[1] # "ok1")
     \* the re-fetched first row can be a row listed later (the query has no order)
     /\ e.refetch = "later" => Len(e.lines) >= 2}

\* the environments of the calls the passes make
AddEnvs == AddEnvsUpTo(MaxLines)

\* the PUT requests of one work-order-line: <<line, attempt, id used, rank, ok>>
LineReqs(e, i, rank) ==
  LET o == e.lines[i]
      id2 == IF i = 1 /\ e.refetch = "new" THEN "refetched"
             ELSE IF i = 1 /\ e.refetch = "later" THEN "listed_later"
             ELSE "listed"
      r1 == [line |-> i, attempt |-> 1, wol |-> "listed", rank |-> rank, ok |-> o = "ok1"]
      r2 == [line |-> i, attempt |-> 2, wol |-> id2, rank |-> rank, ok |-> o = "ok2"]
  IN IF o = "ok1" THEN <<r1>>
     ELSE IF i = 1 /\ e.refetch = "raise" THEN <<r1>>
     ELSE <<r1, r2>>

RECURSIVE AllLineReqs(_, _, _)
AllLineReqs(e, i, rank) ==
  IF i > Len(e.lines) THEN <<>>
  ELSE LineReqs(e, i, rank) \o AllLineReqs(e, i + 1, rank)

\* addOrderToBatch without the abort on a failed first line: it ends in return True
addOrderToBatch_NoGate(e, orderRank) ==
  IF e.order = "raise" \/ e.batch = "raise"
    THEN [ret |-> FALSE, raised |-> TRUE, firstOK |-> FALSE, firstTries |-> 0,
          reqs |-> <<>>]
  ELSE IF e.order = "missing" \/ e.nLines = 0 \/ e.batch # "ok"
    THEN [ret |-> FALSE, raised |-> FALSE, firstOK |-> FALSE, firstTries |-> 0,
          reqs |-> <<>>]
  ELSE IF e.lines[1] # "ok1" /\ e.refetch = "raise"
    THEN [ret |-> FALSE, raised |-> TRUE, firstOK |-> FALSE, firstTries |-> 1,
          reqs |-> LineReqs(e, 1, orderRank)]
  ELSE [ret |-> TRUE, raised |-> FALSE, firstOK |-> e.lines[1] # "fail",
        firstTries |-> Len(LineReqs(e, 1, orderRank)),
        reqs |-> AllLineReqs(e, 1, orderRank)]

\* addOrderToBatch(orderName, batchName, orderRank)
addOrderToBatch(e, orderRank) ==
  IF e.order = "raise" \/ e.batch = "raise"
    THEN [ret |-> FALSE, raised |-> TRUE, firstOK |-> FALSE, firstTries |-> 0,
          reqs |-> <<>>]
  ELSE IF e.order = "missing" \/ e.nLines = 0 \/ e.batch # "ok"
    THEN [ret |-> FALSE, raised |-> FALSE, firstOK |-> FALSE, firstTries |-> 0,
          reqs |-> <<>>]
  ELSE IF e.lines[1] # "ok1" /\ e.refetch = "raise"
    THEN [ret |-> FALSE, raised |-> TRUE, firstOK |-> FALSE, firstTries |-> 1,
          reqs |-> LineReqs(e, 1, orderRank)]
  ELSE IF e.lines[1] = "fail"
    \* first line failed twice: abort, later lines are not tried
    THEN [ret |-> FALSE, raised |-> FALSE, firstOK |-> FALSE, firstTries |-> 2,
          reqs |-> LineReqs(e, 1, orderRank)]
  ELSE [ret |-> TRUE, raised |-> FALSE, firstOK |-> TRUE,
        firstTries |-> Len(LineReqs(e, 1, orderRank)),
        reqs |-> AllLineReqs(e, 1, orderRank)]

\* ------------------------------------- addOrderToBatch, one step at a time
\* the ranks a caller passes
Ranks == 1..MaxSOs

\* work-order-lines of an order whose call is followed step by step
MaxCallLines == 3

\* retry_count < 2
MaxTries == 2

\* index == 0 and retry_count == 0: the first attempt on the first line
RefetchesAfter(index, retry_count) == index = 1 /\ retry_count = 0

\* a line loop that gives up at the first line that failed both attempts
AbortsAfterLine_AnyFailure(index, success) == ~success

\* index == 0 and not success: only the first line aborts the order
AbortsAfterLine(index, success) == index = 1 /\ ~success

\* the calls as they start: every environment, every rank
StartedCalls ==
  {[pc |-> "order", e |-> e, orderRank |-> r, batch_id |-> "", index |-> 0,
    retry_count |-> 0, success |-> FALSE, first_line_ok |-> FALSE,
    wol_id |-> "", reqs |-> <<>>, refetches |-> <<>>, ret |-> FALSE]
     : e \in AddEnvsUpTo(MaxCallLines), r \in Ranks}

Return(value) == call' = [call EXCEPT !.pc = "returned", !.ret = value]
Raise == call' = [call EXCEPT !.pc = "raised"]

\* the order snapshot (with the pre-wait)
AddReadOrder ==
  /\ call.pc = "order"
  /\ CASE call.e.order = "raise" -> Raise
       [] call.e.order = "missing" -> Return(FALSE)
       [] OTHER -> call' = [call EXCEPT !.pc = "lines"]
  /\ UNCHANGED mainVars

\* the work-order-lines of the order
AddReadLines ==
  /\ call.pc = "lines"
  /\ IF call.e.nLines = 0 THEN Return(FALSE)
     ELSE call' = [call EXCEPT !.pc = "batch"]
  /\ UNCHANGED mainVars

\* createBatch and the read of the batch id; then the first line
AddFetchBatch ==
  /\ call.pc = "batch"
  /\ CASE call.e.batch = "raise" -> Raise
       [] call.e.batch \in {"timeout", "vanished"} -> Return(FALSE)
       [] OTHER -> call' = [call EXCEPT !.pc = "try", !.batch_id = "WorkorderId",
                                        !.index = 1, !.retry_count = 0,
                                        !.success = FALSE, !.wol_id = "listed"]
  /\ UNCHANGED mainVars

\* one pass of the while loop up to the re-fetch: the assign request
AddTry ==
  /\ call.pc = "try"
  /\ LET o == call.e.lines[call.index]
         ok == \/ o = "ok1" /\ call.retry_count = 0
               \/ o = "ok2" /\ call.retry_count = 1
         req == [line |-> call.index, attempt |-> call.retry_count + 1,
                 wol |-> call.wol_id, rank |-> call.orderRank,
                 batch_id |-> call.batch_id, ok |-> ok]
         sent == [call EXCEPT !.reqs = Append(@, req)]
     IN IF ok
          THEN call' = [sent EXCEPT !.success = TRUE,
                                    !.first_line_ok = (call.index = 1) \/ @,
                                    !.pc = "line_end"]
        ELSE IF RefetchesAfter(call.index, call.retry_count)
          THEN call' = [sent EXCEPT !.pc = "refetch"]
        ELSE call' = [sent EXCEPT !.retry_count = @ + 1,
                                  !.pc = IF call.retry_count + 1 < MaxTries
                                           THEN "try" ELSE "line_end"]
  /\ UNCHANGED mainVars

\* the re-fetch of the lines after a failed attempt, and the rest of that pass
AddRefetch ==
  /\ call.pc = "refetch"
  /\ IF call.e.refetch = "raise"
       THEN call' = [call EXCEPT
                       !.refetches = Append(@, <<call.index, call.retry_count + 1>>),
                       !.pc = "raised"]
     ELSE call' = [call EXCEPT
                     !.refetches = Append(@, <<call.index, call.retry_count + 1>>),
                     !.wol_id = CASE call.e.refetch = "new" -> "refetched"
                                  [] call.e.refetch = "later" -> "listed_later"
                                  [] OTHER -> @,
                     !.retry_count = @ + 1,
                     !.pc = IF call.retry_count + 1 < MaxTries
                              THEN "try" ELSE "line_end"]
  /\ UNCHANGED mainVars

\* after the while loop: abort, next line, or the end of the for loop
AddLineEnd ==
  /\ call.pc = "line_end"
  /\ IF AbortsAfterLine(call.index, call.success) THEN Return(FALSE)
     ELSE IF call.index < Len(call.e.lines)
       THEN call' = [call EXCEPT !.pc = "try", !.index = @ + 1,
                                 !.retry_count = 0, !.success = FALSE,
                                 !.wol_id = "listed"]
     ELSE Return(TRUE)
  /\ UNCHANGED mainVars

NextAdd ==
  \/ AddReadOrder
  \/ AddReadLines
  \/ AddFetchBatch
  \/ AddTry
  \/ AddRefetch
  \/ AddLineEnd

\* every addOrderToBatch call, one at a time, for a table of one unit
InitAdd == InitWith({1}, FALSE, StartedCalls, Tables) /\ Len(batches) = 1

SpecAdd == InitAdd /\ [][NextAdd]_vars

\* ---------------------------------------------------------------------------
\* The polling loops createBatch, deleteOrder and deAllocateOrder, followed
\* round by round in the variable call. Each round reads the snapshot, returns
\* True when the snapshot shows what the loop waits for (the batch exists, the
\* order is gone, the order is gone or not allocated), and otherwise sends its
\* request, sleeps and counts the round. The snapshot lags behind the remote
\* system: it can still lack what a request has already brought about.

PollKinds == {"createBatch", "deleteOrder", "deAllocateOrder"}

\* while count <= 60
LastRound == 60

\* createBatch calls followed for one batch name (one per addOrderToBatch call
\* that reaches it)
MaxBatchCalls == 2

StartedPolls ==
  {[pc |-> "poll_read", kind |-> k, count |-> 0, reqs |-> 0, goal |-> g,
    ncalls |-> 1, shown |-> FALSE, ret |-> FALSE]
     : k \in PollKinds, g \in BOOLEAN}

\* the loop test and the snapshot read of one round
PollRead ==
  /\ call.pc = "poll_read"
  /\ IF call.count > LastRound
       THEN call' = [call EXCEPT !.pc = "returned", !.ret = FALSE]
     ELSE \/ call' = [call EXCEPT !.pc = "raised"]
          \/ \E shown \in BOOLEAN :
               /\ shown => call.goal
               /\ call' = IF shown
                            THEN [call EXCEPT !.pc = "returned", !.ret = TRUE,
                                              !.shown = TRUE]
                          ELSE [call EXCEPT !.pc = "poll_send", !.shown = FALSE]
  /\ UNCHANGED mainVars

\* the request of the round (its helper swallows every failure), the sleep and
\* the count
PollSend ==
  /\ call.pc = "poll_send"
  /\ \E accepted \in BOOLEAN :
       call' = [call EXCEPT !.pc = "poll_read", !.reqs = @ + 1,
                            !.count = @ + 1, !.goal = @ \/ accepted]
  /\ UNCHANGED mainVars

\* the next addOrderToBatch call for the same batch name calls createBatch anew
PollAgain ==
  /\ call.pc \in {"returned", "raised"}
  /\ call.kind = "createBatch"
  /\ call.ncalls < MaxBatchCalls
  /\ call' = [call EXCEPT !.pc = "poll_read", !.count = 0, !.ncalls = @ + 1,
                          !.shown = FALSE, !.ret = FALSE]
  /\ UNCHANGED mainVars

NextPoll ==
  \/ PollRead
  \/ PollSend
  \/ PollAgain

InitPoll == InitWith({1}, FALSE, StartedPolls, Tables) /\ Len(batches) = 1

SpecPoll == InitPoll /\ [][NextPoll]_vars

\* ------------------------------------------------------------ main pass
\* batch_order_counts[batch_name] + 1, read under batch_counts_lock
NextRank(counts, b) == counts[b] + 1

\* one counter shared by all batches instead of one per batch name
Incremented_Shared(counts, b) == [x \in BatchNames |-> counts[x] + 1]

\* an increment written from a stale read of the counter
Incremented_Lost(counts, b) == [counts EXCEPT ![b] = 1]

\* batch_order_counts[batch_name] += 1, under batch_counts_lock
Incremented(counts, b) == [counts EXCEPT ![b] = @ + 1]

BatchOf(w) == batches[row[w]].PPG_BatchName
CurSO(w) == so_list[w][idx[w]]

ErrorRow(b, so, reason) == [PPG_BatchName |-> b, soNum |-> so, reason |-> reason]

\* every worker given the path of worker 1
OutFile_Shared(thread_id) == 1

\* output_paths[thread_id]: abs_toPrintInSAP_{thread_id}.parquet, as a shard number
OutFile(thread_id) == thread_id

\* a persist step that leaves the file as it was
Upsert_NoWrite(df_ok, row_out) == df_ok

\* row_out upserted by PPG_BatchName: previous rows of the batch go, row_out is appended
Upsert(df_ok, row_out) ==
  Append(SelectSeq(df_ok, LAMBDA r : r.PPG_BatchName # row_out.PPG_BatchName), row_out)

\* a get that hands out the head of the queue and leaves it on the queue
Rest_NotRemoved(queue) == queue

\* the queue after q.get_nowait()
Rest(queue) == Tail(queue)

\* worker(): row = q.get_nowait()
Dequeue(w) ==
  /\ mpc = "pool" /\ pc[w] = "idle" /\ q # <<>>
  /\ row' = [row EXCEPT ![w] = Head(q)]
  /\ q' = Rest(q)
  /\ dequeues' = [dequeues EXCEPT ![Head(q)] = @ + 1]
  /\ so_list' = [so_list EXCEPT ![w] = _safe_split_docnums(batches[Head(q)].DocNums)]
  /\ allocated_arr' = [allocated_arr EXCEPT ![w] = <<>>]
  /\ idx' = [idx EXCEPT ![w] = 1]
  /\ pc' = [pc EXCEPT ![w] = "peek"]
  /\ UNCHANGED <<inputVars, current_rank, batch_order_counts, deferred_map,
                 deferred_create_map, shard, df_errors, errFile, tailVars,
                 createReqs500, commits, fate, last, createHttp, addOK,
                 tailVisits, addCalls, tailSaw, call, lock, cleanupSaw>>

\* worker(): queue.Empty -> break
\* a worker that finds the queue empty leaves its loop and returns
AfterEmpty_KeepsPolling == "idle"

AfterEmpty == "done"

QueueEmpty(w) ==
  /\ mpc = "pool" /\ pc[w] = "idle" /\ q = <<>>
  /\ pc' = [pc EXCEPT ![w] = AfterEmpty]
  /\ UNCHANGED <<inputVars, q, workerVars, batch_order_counts, deferred_map,
                 deferred_create_map, shard, df_errors, errFile, tailVars,
                 createReqs500, commits, fate, last, createHttp, dequeues,
                 addOK, tailVisits, addCalls, tailSaw, call, lock,
                 cleanupSaw>>

\* a with block that keeps the lock when it ends
Unlocked_StillHeld(t) == t

\* the end of a `with batch_counts_lock:` block
Unlocked(t) == Free

\* `with batch_counts_lock:` is entered: thread t (0 the main thread) takes the
\* lock when it is free, and waits otherwise
Acquire(t) ==
  /\ lock = Free
  /\ IF t = 0 THEN mpc \in {"t1commit", "t2commit"}
     ELSE pc[t] \in {"peek", "commit"}
  /\ lock' = t
  /\ UNCHANGED <<mainVarsButLock, call>>

\* with batch_counts_lock: current_rank = batch_order_counts[batch_name] + 1
Peek(w) ==
  /\ pc[w] = "peek" /\ lock = w
  /\ lock' = Unlocked(w)
  /\ IF so_list[w] = <<>>
       THEN \* no sales order: the loop body never runs and the function returns
            /\ pc' = [pc EXCEPT ![w] = "idle"]
            /\ row' = [row EXCEPT ![w] = 0]
            /\ idx' = [idx EXCEPT ![w] = 0]
            /\ UNCHANGED current_rank
       ELSE /\ current_rank' = [current_rank EXCEPT
                                  ![w] = NextRank(batch_order_counts, BatchOf(w))]
            /\ pc' = [pc EXCEPT ![w] = "create"]
            /\ UNCHANGED <<row, idx>>
  /\ UNCHANGED <<inputVars, q, so_list, allocated_arr, batch_order_counts,
                 deferred_map, deferred_create_map, shard, df_errors, errFile,
                 tailVars, createReqs500, commits, fate, last, createHttp,
                 dequeues, addOK, tailVisits, addCalls, tailSaw, call,
                 cleanupSaw>>

\* map.setdefault(batch_name, []).append(soNum): setdefault hands out the one
\* list object the map holds for the name, and append adds to that object, so
\* the update is one step whichever worker makes it
Deferral_NewList(entries, so) == <<so>>

Deferral(entries, so) == Append(entries, so)

\* the cleanup ends the sales order's try block only by raising: the values of
\* deAllocateOrder and deleteOrder are logged and not branched on
CleanupStops_OnTimeout(cleanup) == cleanup \in {"raise", "timeout"}

CleanupStops(cleanup) == cleanup = "raise"

\* history only: whether createOrder ran after the cleanup, and its outcome
AfterCleanup(e, c) ==
  IF CleanupStops(e.cleanup) THEN "skipped"
  ELSE IF c.raised THEN "raised"
  ELSE IF IsDefer(c.ret) THEN "defer"
  ELSE IF Truthy(c.ret) THEN "ok"
  ELSE "failed"

\* cleanup of a pre-existing order, then createOrder and the branch on its value
CreateStep(w) ==
  /\ pc[w] = "create"
  /\ \E e \in CreateEnvs :
       LET so == CurSO(w)
           b == BatchOf(w)
           c == createOrder(e)
           raised == CleanupStops(e.cleanup) \/ c.raised
           sent == IF CleanupStops(e.cleanup) THEN 0 ELSE c.submitted
       IN /\ createReqs500' = [createReqs500 EXCEPT
                                 ![SOId(so)] = IF e.http = "500" THEN @ + sent ELSE @]
          /\ last' = [last EXCEPT ![w] = NoCall]
          /\ createHttp' = [createHttp EXCEPT
                              ![SOId(so)] = IF traced /\ sent > 0 /\ ~raised
                                              THEN HttpClass(e.http) ELSE @]
          /\ cleanupSaw' = IF traced /\ e.cleanup = "timeout"
                             THEN AfterCleanup(e, c) ELSE "none"
          /\ IF raised
               THEN /\ df_errors' = [df_errors EXCEPT
                                       ![w] = Append(@, ErrorRow(b, so, "Exception"))]
                    /\ pc' = [pc EXCEPT ![w] = "persist"]
                    /\ UNCHANGED deferred_create_map
             ELSE IF IsDefer(c.ret)
               THEN /\ deferred_create_map' = [deferred_create_map EXCEPT
                                                 ![b] = Deferral(@, so)]
                    /\ pc' = [pc EXCEPT ![w] = "persist"]
                    /\ UNCHANGED df_errors
             ELSE IF Truthy(c.ret)
               THEN /\ pc' = [pc EXCEPT ![w] = "add"]
                    /\ UNCHANGED <<df_errors, deferred_create_map>>
             ELSE /\ df_errors' = [df_errors EXCEPT
                                     ![w] = Append(@, ErrorRow(b, so, "create_failed"))]
                  /\ pc' = [pc EXCEPT ![w] = "persist"]
                  /\ UNCHANGED deferred_create_map
  /\ UNCHANGED <<inputVars, q, workerVars, batch_order_counts, deferred_map,
                 shard, errFile, tailVars, commits, fate, dequeues, addOK,
                 tailVisits, addCalls, tailSaw, call, lock>>

\* history only: the sales order's first line was refused in both attempts
Gated(a) == ~a.raised /\ ~a.ret /\ ~a.firstOK /\ a.firstTries = 2

FateAfterAdd(so, a) ==
  IF Gated(a) THEN [fate EXCEPT ![SOId(so)] = "first_line_failed"] ELSE fate

OKAfterAdd(b, a) ==
  IF a.ret /\ ~a.raised THEN [addOK EXCEPT ![b] = @ + 1] ELSE addOK

\* success = addOrderToBatch(soNum, batch_name, current_rank) and its branches
AddStep(w) ==
  /\ pc[w] = "add"
  /\ \E e \in AddEnvs :
       LET so == CurSO(w)
           b == BatchOf(w)
           a == addOrderToBatch(e, current_rank[w])
       IN /\ last' = [last EXCEPT ![w] =
                        [called |-> TRUE, so |-> so, batch |-> b,
                                    rank |-> current_rank[w],
                                    firstTries |-> a.firstTries,
                                    firstOK |-> a.firstOK, ret |-> a.ret,
                                    committed |-> FALSE]]
          /\ fate' = FateAfterAdd(so, a)
          /\ addOK' = OKAfterAdd(b, a)
          /\ addCalls' = [addCalls EXCEPT ![SOId(so)] = @ + 1]
          /\ IF a.raised
               THEN /\ df_errors' = [df_errors EXCEPT
                                       ![w] = Append(@, ErrorRow(b, so, "Exception"))]
                    /\ pc' = [pc EXCEPT ![w] = "persist"]
                    /\ UNCHANGED <<allocated_arr, deferred_map>>
             ELSE IF a.ret
               THEN /\ allocated_arr' = [allocated_arr EXCEPT ![w] = Append(@, so)]
                    /\ pc' = [pc EXCEPT ![w] = "commit"]
                    /\ UNCHANGED <<df_errors, deferred_map>>
             ELSE /\ deferred_map' = [deferred_map EXCEPT ![b] = Deferral(@, so)]
                  /\ pc' = [pc EXCEPT ![w] = "persist"]
                  /\ UNCHANGED <<df_errors, allocated_arr>>
  /\ UNCHANGED <<inputVars, q, row, so_list, idx, current_rank, batch_order_counts,
                 deferred_create_map, shard, errFile, tailVars, createReqs500,
                 commits, createHttp, dequeues, tailVisits, tailSaw, call,
                 lock>>
  /\ cleanupSaw' = "none"

\* with batch_counts_lock: counts[batch] += 1; current_rank = counts[batch] + 1
Commit(w) ==
  /\ pc[w] = "commit" /\ lock = w
  /\ lock' = Unlocked(w)
  /\ batch_order_counts' = Incremented(batch_order_counts, BatchOf(w))
  /\ current_rank' = [current_rank EXCEPT
                       ![w] = NextRank(batch_order_counts', BatchOf(w))]
  /\ commits' = [commits EXCEPT ![BatchOf(w)] =
                  Append(@, [so |-> CurSO(w), rank |-> current_rank[w]])]
  /\ fate' = [fate EXCEPT ![SOId(CurSO(w))] = "none"]
  /\ last' = [last EXCEPT ![w].committed = TRUE]
  /\ pc' = [pc EXCEPT ![w] = "persist"]
  /\ UNCHANGED <<inputVars, q, row, so_list, idx, allocated_arr, deferred_map,
                 deferred_create_map, shard, df_errors, errFile, tailVars,
                 createReqs500, createHttp, dequeues, addOK, tailVisits,
                 addCalls, tailSaw, call, cleanupSaw>>

\* the row of the batch is rebuilt from allocated_arr and both parquets are written
Persist(w) ==
  /\ pc[w] = "persist"
  /\ LET row_out == [PPG_BatchName |-> BatchOf(w),
                     ordersBatched |-> Join(allocated_arr[w]),
                     soCount |-> Len(allocated_arr[w])]
     IN shard' = [shard EXCEPT ![OutFile(w)] = Upsert(@, row_out)]
  /\ errFile' = [errFile EXCEPT ![w] = IF df_errors[w] # <<>> THEN df_errors[w] ELSE @]
  /\ IF idx[w] < Len(so_list[w])
       THEN /\ idx' = [idx EXCEPT ![w] = @ + 1]
            /\ pc' = [pc EXCEPT ![w] = "create"]
            /\ UNCHANGED <<row, so_list, current_rank, allocated_arr, last>>
       ELSE \* _process_single_batch_row returns: its locals are gone
            /\ last' = [last EXCEPT ![w] = NoCall]
            /\ pc' = [pc EXCEPT ![w] = "idle"]
            /\ row' = [row EXCEPT ![w] = 0]
            /\ so_list' = [so_list EXCEPT ![w] = <<>>]
            /\ idx' = [idx EXCEPT ![w] = 0]
            /\ current_rank' = [current_rank EXCEPT ![w] = 0]
            /\ allocated_arr' = [allocated_arr EXCEPT ![w] = <<>>]
  /\ UNCHANGED <<inputVars, q, batch_order_counts, deferred_map,
                 deferred_create_map, df_errors, tailVars, createReqs500,
                 commits, fate, createHttp, dequeues, addOK, tailVisits,
                 addCalls, tailSaw, call, lock>>
  /\ cleanupSaw' = "none"

\* ----------------------------------------------------------- tail passes
RECURSIVE EntriesFrom(_, _)
\* for batch_name in sorted(m.keys()): for soNum in m[batch_name]
EntriesFrom(m, i) ==
  IF i > Len(BatchNameSeq) THEN <<>>
  ELSE [k \in 1..Len(m[BatchNameSeq[i]]) |-> <<BatchNameSeq[i], m[BatchNameSeq[i]][k]>>]
       \o EntriesFrom(m, i + 1)

TailEntries(m) == EntriesFrom(m, 1)

\* a merge that rewrites ordersBatched and leaves soCount as it was
ApplyRow_KeepCount(r, m) ==
  IF m[r.PPG_BatchName] = <<>> THEN r
  ELSE [r EXCEPT !.ordersBatched = _append_unique(r.ordersBatched, m[r.PPG_BatchName])]

\* one row of a shard under the success map
ApplyRow(r, m) ==
  IF m[r.PPG_BatchName] = <<>> THEN r
  ELSE LET new_csv == _append_unique(r.ordersBatched, m[r.PPG_BatchName])
       IN IF new_csv # r.ordersBatched
            THEN [r EXCEPT !.ordersBatched = new_csv, !.soCount = CsvCount(new_csv)]
            ELSE r

\* a merge that rewrites the first shard file only
_apply_deferred_successes_to_parquets_FirstFile(files, m) ==
  [w \in Threads |-> IF w = 1 THEN [i \in 1..Len(files[w]) |-> ApplyRow(files[w][i], m)]
                     ELSE files[w]]

_apply_deferred_successes_to_parquets(files, m) ==
  [w \in Threads |-> [i \in 1..Len(files[w]) |-> ApplyRow(files[w][i], m)]]

\* a main thread that does not wait for the workers
PoolDrained_NoJoin == TRUE

\* the with-block of the ThreadPoolExecutor is left: every worker has returned
PoolDrained == \A w \in Threads : pc[w] \in {"done", "off"}

\* _retry_deferred_tail is entered; it returns at once when nothing was deferred
Tail1Begin ==
  /\ mpc = "pool" /\ PoolDrained
  /\ IF deferred_map = EmptyMap
       THEN mpc' = "t2begin" /\ UNCHANGED tq
       ELSE mpc' = "t1" /\ tq' = TailEntries(deferred_map)
  /\ UNCHANGED <<inputVars, q, pc, workerVars, batch_order_counts, deferred_map,
                 deferred_create_map, shard, df_errors, errFile, tcur, success_map,
                 combined, combinedErr, createReqs500, commits, fate, last,
                 createHttp, dequeues, addOK, tailVisits, addCalls, tailSaw,
                 call, lock, cleanupSaw>>

\* one deferred add: re-check the order, peek the rank, addOrderToBatch
\* a re-check that never finds the order missing
OrderMissing_Never(chk) == FALSE

\* df_ppg.empty at the re-check of tail pass 1
OrderMissing(chk) == chk = "missing"

Tail1Entry ==
  /\ mpc = "t1" /\ tq # <<>>
  /\ LET b == Head(tq)[1]
         so == Head(tq)[2]
         rank == NextRank(batch_order_counts, b)
         none == NoCall
         Saw(chk) == IF traced THEN [wait |-> chk, ret |-> "none", raised |-> FALSE]
                     ELSE tailSaw
     IN \E chk \in {"visible", "missing", "raise"} :
          \/ /\ chk = "raise"      \* no handler: the exception leaves the run
             /\ tailSaw' = Saw(chk)
             /\ mpc' = "aborted" /\ last' = [last EXCEPT ![0] = none]
             /\ UNCHANGED <<tcur, fate, addOK, addCalls>>
          \/ /\ chk # "raise" /\ OrderMissing(chk)
             /\ tailSaw' = Saw(chk)
             /\ last' = [last EXCEPT ![0] = none]
             /\ UNCHANGED <<mpc, tcur, fate, addOK, addCalls>>
          \/ /\ chk # "raise" /\ ~OrderMissing(chk)
             /\ tailSaw' = Saw(chk)
             /\ \E e \in AddEnvs :
                  LET a == addOrderToBatch(e, rank)
                  IN /\ last' = [last EXCEPT ![0] =
                                   [called |-> TRUE, so |-> so, batch |-> b,
                                    rank |-> rank,
                                    firstTries |-> a.firstTries,
                                    firstOK |-> a.firstOK, ret |-> a.ret,
                                    committed |-> FALSE]]
                     /\ fate' = FateAfterAdd(so, a)
                     /\ addOK' = OKAfterAdd(b, a)
                     /\ addCalls' = [addCalls EXCEPT ![SOId(so)] = @ + 1]
                     /\ IF a.raised THEN mpc' = "aborted" /\ UNCHANGED tcur
                        ELSE IF a.ret THEN mpc' = "t1commit" /\ tcur' = <<b, so, rank>>
                        ELSE UNCHANGED <<mpc, tcur>>
  /\ tq' = Tail(tq)
  /\ tailVisits' = [tailVisits EXCEPT ![SOId(Head(tq)[2])] = @ + 1]
  /\ UNCHANGED <<inputVars, q, pc, workerVars, batch_order_counts, deferred_map,
                 deferred_create_map, shard, df_errors, errFile, success_map,
                 combined, combinedErr, createReqs500, commits, createHttp,
                 dequeues, call, lock, cleanupSaw>>

\* the ledger is incremented and the success is noted in the pass's map
TailCommit ==
  /\ mpc \in {"t1commit", "t2commit"} /\ lock = 0
  /\ lock' = Unlocked(0)
  /\ batch_order_counts' = Incremented(batch_order_counts, tcur[1])
  /\ success_map' = [success_map EXCEPT ![tcur[1]] = Append(@, tcur[2])]
  /\ commits' = [commits EXCEPT ![tcur[1]] =
                  Append(@, [so |-> tcur[2], rank |-> tcur[3]])]
  /\ fate' = [fate EXCEPT ![SOId(tcur[2])] = "none"]
  /\ last' = [last EXCEPT ![0].committed = TRUE]
  /\ tcur' = <<>>
  /\ mpc' = IF mpc = "t1commit" THEN "t1" ELSE "t2"
  /\ UNCHANGED <<inputVars, q, pc, workerVars, deferred_map, deferred_create_map,
                 shard, df_errors, errFile, tq, combined, combinedErr, createReqs500,
                 createHttp, dequeues, addOK, tailVisits, addCalls, tailSaw,
                 call, cleanupSaw>>

\* the pass's successes are written into the shards
Tail1Apply ==
  /\ mpc = "t1" /\ tq = <<>>
  /\ last' = [last EXCEPT ![0] = NoCall]
  /\ shard' = _apply_deferred_successes_to_parquets(shard, success_map)
  /\ mpc' = "t2begin"
  /\ UNCHANGED <<inputVars, q, pc, workerVars, batch_order_counts, deferred_map,
                 deferred_create_map, df_errors, errFile, tq, tcur, success_map,
                 combined, combinedErr, createReqs500, commits, fate, createHttp,
                 dequeues, addOK, tailVisits, addCalls, tailSaw, call, lock,
                 cleanupSaw>>

\* _retry_deferred_create_then_add_tail is entered
Tail2Begin ==
  /\ mpc = "t2begin"
  /\ success_map' = EmptyMap
  /\ IF deferred_create_map = EmptyMap
       THEN mpc' = "combine" /\ UNCHANGED tq
       ELSE mpc' = "t2" /\ tq' = TailEntries(deferred_create_map)
  /\ UNCHANGED <<inputVars, q, pc, workerVars, batch_order_counts, deferred_map,
                 deferred_create_map, shard, df_errors, errFile, tcur, combined,
                 combinedErr, createReqs500, commits, fate, last, createHttp,
                 dequeues, addOK, tailVisits, addCalls, tailSaw, call, lock,
                 cleanupSaw>>

\* one deferred create: final visibility wait, create once if needed, then add
Tail2Entry ==
  /\ mpc = "t2" /\ tq # <<>>
  /\ LET b == Head(tq)[1]
         so == Head(tq)[2]
         rank == NextRank(batch_order_counts, b)
         none == NoCall
         Add == \E e \in AddEnvs :
                  LET a == addOrderToBatch(e, rank)
                  IN /\ last' = [last EXCEPT ![0] =
                                   [called |-> TRUE, so |-> so, batch |-> b,
                                    rank |-> rank,
                                    firstTries |-> a.firstTries,
                                    firstOK |-> a.firstOK, ret |-> a.ret,
                                    committed |-> FALSE]]
                     /\ fate' = FateAfterAdd(so, a)
                     /\ addOK' = OKAfterAdd(b, a)
                     /\ addCalls' = [addCalls EXCEPT ![SOId(so)] = @ + 1]
                     /\ IF a.ret /\ ~a.raised
                          THEN mpc' = "t2commit" /\ tcur' = <<b, so, rank>>
                          ELSE UNCHANGED <<mpc, tcur>>
     IN \E wait \in {"visible", "hidden", "raise"} :
          \/ /\ wait = "raise"      \* caught by the per-order handler
             /\ last' = [last EXCEPT ![0] = none]
             /\ tailSaw' = IF traced THEN [wait |-> wait, ret |-> "none", raised |-> FALSE]
                         ELSE tailSaw
             /\ UNCHANGED <<mpc, tcur, createReqs500, fate, addOK, addCalls>>
          \/ /\ wait = "visible"
             /\ Add
             /\ tailSaw' = IF traced THEN [wait |-> wait, ret |-> "none", raised |-> FALSE]
                         ELSE tailSaw
             /\ UNCHANGED createReqs500
          \/ /\ wait = "hidden"
             /\ \E ce \in {x \in CreateEnvs : x.cleanup = "absent"} :
                  LET c == createOrder(ce)
                      created_ok == ~c.raised /\ ~IsDefer(c.ret) /\ Truthy(c.ret)
                  IN /\ createReqs500' = [createReqs500 EXCEPT
                                         ![SOId(so)] = @ + c.submitted]
                     /\ tailSaw' = IF traced
                                   THEN [wait |-> wait, ret |-> c.ret, raised |-> c.raised]
                                   ELSE tailSaw
                     /\ IF created_ok THEN Add
                        ELSE /\ last' = [last EXCEPT ![0] = none]
                             /\ fate' = IF ~c.raised /\ IsDefer(c.ret)
                                          THEN [fate EXCEPT ![SOId(so)] = "deferred_again"]
                                          ELSE fate
                             /\ UNCHANGED <<mpc, tcur, addOK, addCalls>>
  /\ tq' = Tail(tq)
  /\ tailVisits' = [tailVisits EXCEPT ![SOId(Head(tq)[2])] = @ + 1]
  /\ UNCHANGED <<inputVars, q, pc, workerVars, batch_order_counts, deferred_map,
                 deferred_create_map, shard, df_errors, errFile, success_map,
                 combined, combinedErr, commits, createHttp, dequeues, call,
                 lock, cleanupSaw>>

Tail2Apply ==
  /\ mpc = "t2" /\ tq = <<>>
  /\ last' = [last EXCEPT ![0] = NoCall]
  /\ shard' = _apply_deferred_successes_to_parquets(shard, success_map)
  /\ mpc' = "combine"
  /\ UNCHANGED <<inputVars, q, pc, workerVars, batch_order_counts, deferred_map,
                 deferred_create_map, df_errors, errFile, tq, tcur, success_map,
                 combined, combinedErr, createReqs500, commits, fate, createHttp,
                 dequeues, addOK, tailVisits, addCalls, tailSaw, call, lock,
                 cleanupSaw>>

RECURSIVE ConcatFiles(_, _)
\* pd.concat of the per-thread files
ConcatFiles(files, w) ==
  IF w > MaxThreads THEN <<>> ELSE files[w] \o ConcatFiles(files, w + 1)

\* combine_parquet_files() and combine_error_parquet_files()
Combine ==
  /\ mpc = "combine"
  /\ combined' = ConcatFiles(shard, 1)
  /\ combinedErr' = ConcatFiles(errFile, 1)
  /\ mpc' = "done"
  /\ UNCHANGED <<inputVars, q, pc, workerVars, batch_order_counts, deferred_map,
                 deferred_create_map, shard, df_errors, errFile, tq, tcur,
                 success_map, createReqs500, commits, fate, last, createHttp,
                 dequeues, addOK, tailVisits, addCalls, tailSaw, call, lock,
                 cleanupSaw>>

Next ==
  \/ \E t \in 0..MaxThreads : Acquire(t)
  \/ \E w \in Threads : Dequeue(w)
  \/ \E w \in Threads : QueueEmpty(w)
  \/ \E w \in Threads : Peek(w)
  \/ \E w \in Threads : CreateStep(w)
  \/ \E w \in Threads : AddStep(w)
  \/ \E w \in Threads : Commit(w)
  \/ \E w \in Threads : Persist(w)
  \/ Tail1Begin
  \/ Tail1Entry
  \/ TailCommit
  \/ Tail1Apply
  \/ Tail2Begin
  \/ Tail2Entry
  \/ Tail2Apply
  \/ Combine

Spec == Init /\ [][Next]_vars

\* the tables with distinct batch names, listed in name order
LiveTables ==
  {t \in Tables : \A i \in 1..Len(t) : NameRank(t[i].PPG_BatchName) = i}

InitLive == InitWith({MaxThreads}, FALSE, {NoAddCall}, LiveTables)

\* the run with its threads scheduled: a step that can be taken is eventually
\* taken (each call comes back, the pool runs its workers, the main thread
\* runs on once the pool has joined)
SpecLive == InitLive /\ [][Next]_vars /\ WF_vars(Next)

SpecTraced == InitTraced /\ [][Next]_vars

\* runs of MaxThreads workers over batch tables that carry due dates
InitDated == InitWith({MaxThreads}, FALSE, {NoAddCall}, DatedTables)

SpecDated == InitDated /\ [][Next]_vars

\* ------------------------------------------------------------- the claims
\* the ranks passed to the committed adds of batch b, in commit order
RanksCommitted(b) == [i \in 1..Len(commits[b]) |-> commits[b][i].rank]
RankSet(b) == {RanksCommitted(b)[i] : i \in 1..Len(RanksCommitted(b))}
UniqueNames == \A i, j \in 1..Len(batches) :
                 batches[i].PPG_BatchName = batches[j].PPG_BatchName => i = j

\* C1 (rank density): when a run has ended, the ranks passed to the committed
\* addOrderToBatch calls of every batch name are exactly 1..K, K the number of
\* committed successes of the batch: none used twice, none skipped.
C1_RankDensity ==
  mpc = "done" =>
    \A b \in BatchNames :
      /\ Len(RanksCommitted(b)) = batch_order_counts[b]
      /\ RankSet(b) = 1..Len(RanksCommitted(b))

\* C1, for a batch table whose rows carry pairwise different batch names: at
\* every point of the run the committed ranks of a batch are 1, 2, .., K in
\* commit order.
C1_RankDensityUniqueNames ==
  UniqueNames =>
    \A b \in BatchNames :
      RanksCommitted(b) = [i \in 1..batch_order_counts[b] |-> i]

\* the sales orders a csv lists
Listed(csv) == StripNonEmpty(csv)

\* thread t's latest addOrderToBatch call sent both PUTs for the first
\* work-order-line and neither was answered 200
FirstLineFailedTwice(t) ==
  last[t].called /\ last[t].firstTries = 2 /\ ~last[t].firstOK

\* C2 (first-line gating): after an addOrderToBatch call whose first
\* work-order-line got no 200 in either attempt, the call has returned False,
\* the caller is not about to commit and has not committed, and the sales order
\* is in no list that feeds ordersBatched (allocated_arr and the worker's shard
\* row in the main pass, the success map in a tail pass).
C2_FirstLineGating ==
  \A t \in 0..MaxThreads :
    FirstLineFailedTwice(t) =>
      /\ ~last[t].ret /\ ~last[t].committed
      /\ t = 0 => /\ mpc \notin {"t1commit", "t2commit"}
                  /\ ~InSeq(last[t].so, success_map[last[t].batch])
      /\ t # 0 => /\ pc[t] # "commit"
                  /\ ~InSeq(last[t].so, allocated_arr[t])
                  /\ \A i \in 1..Len(shard[t]) :
                       ~InSeq(last[t].so, Listed(shard[t][i].ordersBatched))

\* C2 witness: a worker has persisted its batch row after such a failed call and
\* goes on with the next sales order; the ledger of the batch is still 0.
C2_Witness ==
  \E w \in Threads :
    /\ FirstLineFailedTwice(w) /\ pc[w] = "create" /\ shard[w] # <<>>
    /\ batch_order_counts[last[w].batch] = 0

\* C3 (duplicate-create protection): a sales order whose main-pass create was
\* answered HTTP 500 is sent to POST /api/orders at most twice in the run.
C3_AtMostTwoCreates == \A i \in SOIds : createReqs500[i] <= 2

\* C3 witness: such a sales order was created a second time, in tail pass 2.
C3_Witness == \E i \in SOIds : createReqs500[i] = 2 /\ mpc = "done"

\* C4 (idempotent merge): right after a tail pass has merged its success map,
\* merging the same map once more changes no row of any shard.
C4_IdempotentMerge ==
  mpc \in {"t2begin", "combine"} =>
    _apply_deferred_successes_to_parquets(shard, success_map) = shard

\* C4 witness: tail pass 1 has merged a success into a row that already listed a
\* main-pass success.
C4_Witness ==
  /\ mpc = "t2begin"
  /\ \E w \in Threads : \E i \in 1..Len(shard[w]) :
       /\ shard[w][i].soCount = 2
       /\ Len(success_map[shard[w][i].PPG_BatchName]) = 1

Active(w) == pc[w] \in {"peek", "create", "add", "commit", "persist"}

\* C5 (no cross-batch interference): while two workers process rows with
\* different batch names, a step of one changes neither the other batch's ledger
\* counter nor the other worker's next rank; and a ledger counter only ever
\* changes by +1, in the commit of a thread working on that very batch.
C5_NoCrossBatchInterference ==
  [][/\ \A w1, w2 \in Threads :
          (/\ w1 # w2 /\ Active(w1) /\ Active(w2)
           /\ BatchOf(w1) # BatchOf(w2)
           /\ pc'[w1] # pc[w1])
          => /\ batch_order_counts'[BatchOf(w2)] = batch_order_counts[BatchOf(w2)]
             /\ current_rank'[w2] = current_rank[w2]
     /\ \A b \in BatchNames :
          batch_order_counts'[b] # batch_order_counts[b]
          => /\ batch_order_counts'[b] = batch_order_counts[b] + 1
             /\ \/ \E w \in Threads : pc[w] = "commit" /\ BatchOf(w) = b
                                      /\ pc'[w] = "persist"
                \/ mpc \in {"t1commit", "t2commit"} /\ tcur[1] = b]_vars

\* C5 witness: one worker has committed rank 1 of its batch while another worker
\* is mid-attempt on a different batch, still at rank 1 of its own.
C5_Witness ==
  \E w1, w2 \in Threads :
    /\ Active(w1) /\ Active(w2) /\ BatchOf(w1) # BatchOf(w2)
    /\ batch_order_counts[BatchOf(w1)] = 1 /\ pc[w1] = "persist"
    /\ pc[w2] = "add" /\ current_rank[w2] = 1
    /\ batch_order_counts[BatchOf(w2)] = 0

\* C6 (soCount accuracy): when the run has ended, soCount of every row of the
\* combined output equals the final ledger counter of the row's batch.
C6_SoCountIsLedger ==
  mpc = "done" =>
    \A i \in 1..Len(combined) :
      combined[i].soCount = batch_order_counts[combined[i].PPG_BatchName]

\* C6, for a batch table whose rows carry pairwise different batch names.
C6_SoCountIsLedgerUniqueNames == UniqueNames => C6_SoCountIsLedger

\* the sales order is listed in some row of the combined output
InOutput(so) ==
  \E i \in 1..Len(combined) : InSeq(so, Listed(combined[i].ordersBatched))

\* the combined error table has a row for the sales order
InErrorTable(so) == \E i \in 1..Len(combinedErr) : combinedErr[i].soNum = so

\* the sales order was committed to the ledger of some batch
Committed(so) ==
  \E b \in BatchNames : \E i \in 1..Len(commits[b]) : commits[b][i].so = so

\* C7 (assignment failures surface in the error table): when the run has ended,
\* a sales order whose first work-order-line was refused in both attempts and
\* that never succeeded afterwards is in no ordersBatched, was never committed
\* to a ledger counter, and has a row in the combined error table.
C7_AssignFailureInErrorTable ==
  mpc = "done" =>
    \A i \in SOIds :
      fate[i] = "first_line_failed" =>
        /\ ~InOutput(SOName(i))
        /\ ~Committed(SOName(i))
        /\ InErrorTable(SOName(i))

\* C8 (failure scoping): no failure while handling one sales order ends the
\* run; the run never leaves its passes through an unhandled exception.
C8_FailureNeverStopsRun == mpc # "aborted"

\* C9 (terminal tail failure is recorded): when the run has ended, a sales
\* order whose create was answered with the defer signal again in tail pass 2
\* has a row in the combined error table.
C9_DeferAgainInErrorTable ==
  mpc = "done" =>
    \A i \in SOIds : fate[i] = "deferred_again" => InErrorTable(SOName(i))

\* the committed sales orders of batch b that no persisted shard row of b lists
MissingFromShard(b) ==
  {so \in {commits[b][i].so : i \in 1..Len(commits[b])} :
     \A w \in Threads : \A i \in 1..Len(shard[w]) :
       shard[w][i].PPG_BatchName = b => ~InSeq(so, Listed(shard[w][i].ordersBatched))}

\* C10 (crash safety) as stated: at every point of the run, main pass and both
\* tail passes, at most one committed sales order of a batch is missing from the
\* persisted shard rows of the batch.
C10_CrashSafety == \A b \in BatchNames : Cardinality(MissingFromShard(b)) <= 1

\* the sales orders the worker has appended to allocated_arr for its current
\* row and that its shard file does not list under the row's batch name
UnpersistedOf(w) ==
  {so \in {allocated_arr[w][i] : i \in 1..Len(allocated_arr[w])} :
     \A i \in 1..Len(shard[w]) :
       shard[w][i].PPG_BatchName = BatchOf(w)
         => ~InSeq(so, Listed(shard[w][i].ordersBatched))}

\* C10, main pass only: while a worker processes a batch row, at most one sales
\* order it has assigned for that row (the one in flight) is missing from the
\* row it has persisted in its shard; and a sales order that was committed
\* before the in-flight one is always listed.
C10_MainPassCrashSafety ==
  \A w \in Threads :
    Active(w) =>
      /\ Cardinality(UnpersistedOf(w)) <= 1
      /\ \A so \in UnpersistedOf(w) :
           so = allocated_arr[w][Len(allocated_arr[w])] /\ pc[w] \in {"commit", "persist"}

\* C10 witness: a worker has committed its second success of a row; the first is
\* in the persisted row, the second not yet.
C10_Witness ==
  \E w \in Threads :
    /\ pc[w] = "persist" /\ last[w].committed
    /\ Len(allocated_arr[w]) = 2
    /\ UnpersistedOf(w) = {allocated_arr[w][2]}
    /\ \E i \in 1..Len(shard[w]) : shard[w][i].soCount = 1

\* scenario B1 on batch b: the table has a row of b with the sales orders
\* [S1, S2]; the create of S1 was answered 409 and its main-pass assignment was
\* committed; the create of S2 was answered 500
ScenarioB1(b) ==
  /\ traced
  /\ \E r \in 1..Len(batches) :
       /\ batches[r].PPG_BatchName = b
       /\ _safe_split_docnums(batches[r].DocNums) = <<SOName(1), SOName(2)>>
  /\ createHttp[1] = "409" /\ createHttp[2] = "500"
  /\ ~InSeq(SOName(1), deferred_map[b])
  /\ Len(commits[b]) >= 1 /\ commits[b][1].so = SOName(1)

\* C11 (scenario B1): in that scenario, when the worker pool has drained the
\* shard row of the batch is ordersBatched = "S1", soCount = 1, the ledger
\* counter is 1 and the deferred-create map holds S2 under the batch; and when S2
\* was found visible in tail pass 2 (no second create) and its assignment
\* succeeded, the run ends with the row ordersBatched = "S1, S2", soCount = 2
\* and S2 committed at rank 2.
C11_ScenarioB1 ==
  \A b \in BatchNames :
    ScenarioB1(b) =>
      /\ (mpc = "pool" /\ PoolDrained) =>
           /\ shard[1] = <<[PPG_BatchName |-> b, ordersBatched |-> <<"S", "1">>,
                            soCount |-> 1]>>
           /\ batch_order_counts[b] = 1
           /\ deferred_create_map[b] = <<SOName(2)>>
      /\ (mpc = "done" /\ Committed(SOName(2)) /\ createReqs500[2] = 1) =>
           /\ combined = <<[PPG_BatchName |-> b,
                            ordersBatched |-> <<"S", "1", ",", " ", "S", "2">>,
                            soCount |-> 2]>>
           /\ commits[b] = <<[so |-> SOName(1), rank |-> 1],
                             [so |-> SOName(2), rank |-> 2]>>
           /\ batch_order_counts[b] = 2

\* C11 witness: the scenario has run to its end on B1 with S2 assigned in tail
\* pass 2 without a second create.
C11_Witness ==
  /\ ScenarioB1("B1") /\ mpc = "done"
  /\ Committed(SOName(2)) /\ createReqs500[2] = 1

\* how often row u of the table stands on the queue
OnQueue(u) == Cardinality({i \in 1..Len(q) : q[i] = u})

\* C12 (each batch unit is consumed exactly once): at every point a row of the
\* table either stands once on the queue and was never taken, or is off the
\* queue and was taken exactly once; no two workers hold the same row; and when
\* the pool has drained the queue is empty and every row was taken once.
C12_ConsumedExactlyOnce ==
  /\ \A u \in 1..Len(batches) :
       /\ OnQueue(u) + dequeues[u] = 1
       /\ Cardinality({w \in Threads : row[w] = u}) <= dequeues[u]
  /\ PoolDrained => /\ q = <<>>
                    /\ \A u \in 1..Len(batches) : dequeues[u] = 1

\* C12 witness: two workers have drained a queue of two rows, one row each.
C12_Witness ==
  /\ PoolDrained /\ mpc = "pool" /\ Len(batches) = 2
  /\ shard[1] # <<>> /\ shard[2] # <<>>

\* no worker is inside worker() any more
WorkersExited == \A w \in Threads : pc[w] \in {"done", "off"}

\* the stages of the main thread in the order of the code
Stage(m) ==
  CASE m = "pool" -> 0
    [] m \in {"t1", "t1commit"} -> 1
    [] m = "t2begin" -> 2
    [] m \in {"t2", "t2commit"} -> 3
    [] m = "combine" -> 4
    [] OTHER -> 5

\* C13 (tail passes are sequential and isolated): every step taken once the
\* main thread has left the pool happens with all workers exited and moves no
\* worker, so the main thread alone touches the ledger, the deferred maps and
\* the shards; the stages only advance; tail pass 2 is entered only after tail
\* pass 1 has visited all its entries; the shards are combined only after tail
\* pass 2 has visited all of its entries.
C13_TailsSequential ==
  [][/\ (mpc # "pool" \/ mpc' # "pool") =>
          /\ WorkersExited
          /\ pc' = pc /\ UNCHANGED workerVars /\ q' = q
     /\ Stage(mpc') >= Stage(mpc)
     /\ (Stage(mpc) = 1 /\ Stage(mpc') = 2) => mpc = "t1" /\ tq = <<>>
     /\ (Stage(mpc) < 3 /\ Stage(mpc') >= 3 /\ mpc' # "aborted") => mpc = "t2begin"
     /\ (mpc' = "combine" /\ mpc # "combine") =>
          \/ mpc = "t2" /\ tq = <<>>
          \/ mpc = "t2begin" /\ deferred_create_map = EmptyMap
     /\ (combined' # combined \/ combinedErr' # combinedErr) => mpc = "combine"
     /\ (mpc # "pool" /\ (batch_order_counts' # batch_order_counts \/ shard' # shard))
          => mpc \in {"t1", "t2", "t1commit", "t2commit"}]_vars

\* C13 witness: the run is about to combine after both tail passes had entries.
C13_Witness ==
  /\ mpc = "combine" /\ deferred_map # EmptyMap /\ deferred_create_map # EmptyMap
  /\ \E b \in BatchNames : Len(commits[b]) = 2

\* the rows of the combined output that carry batch name b
RowsOf(b) == {i \in 1..Len(combined) : combined[i].PPG_BatchName = b}

\* C14 (one output row per batch): when the run has ended, the combined output
\* holds exactly one row for the batch name of every row of the batch table.
C14_OneRowPerBatch ==
  mpc = "done" =>
    \A u \in 1..Len(batches) : Cardinality(RowsOf(batches[u].PPG_BatchName)) = 1

\* C14, for a batch table whose rows carry pairwise different batch names and
\* at least one sales order each; and no row of the output is of another batch.
C14_OneRowPerBatchUniqueNonEmpty ==
  (/\ mpc = "done" /\ UniqueNames
   /\ \A u \in 1..Len(batches) : _safe_split_docnums(batches[u].DocNums) # <<>>)
  => /\ \A u \in 1..Len(batches) : Cardinality(RowsOf(batches[u].PPG_BatchName)) = 1
     /\ Len(combined) = Len(batches)

\* worker w is handed the answer 500 for its current sales order in this step
Gets500(w) ==
  /\ pc[w] = "create"
  /\ createHttp[SOId(CurSO(w))] = "none" /\ createHttp'[SOId(CurSO(w))] = "500"

ErrorFrameRows(so) ==
  {wk \in Threads \X (1..MaxSOs) :
     wk[2] <= Len(df_errors[wk[1]]) /\ df_errors[wk[1]][wk[2]].soNum = so}

\* the rows of the combined error table for a sales order
ErrorTableRows(so) == {k \in 1..Len(combinedErr) : combinedErr[k].soNum = so}

C17_CreateSuccessLeadsToAdd ==
  \A i \in SOIds :
    createHttp[i] = "2xx" =>
      /\ \A wk \in ErrorFrameRows(SOName(i)) :
           df_errors[wk[1]][wk[2]].reason # "create_failed"
      /\ \A w \in Threads :
           (pc[w] = "persist" /\ CurSO(w) = SOName(i)) => last[w].called

\* thread t (0 the main thread) makes an addOrderToBatch call in this step
CallsAdd(t) ==
  /\ last'[t].called
  /\ IF t = 0 THEN mpc \in {"t1", "t2"} /\ tq' # tq
     ELSE pc[t] = "add" /\ pc'[t] # "add"

\* the rank of every call is the ledger counter + 1 of the batch as the call
\* starts, and a call that does not return success leaves the counter alone
RankIsNext ==
  \A t \in 0..MaxThreads :
    CallsAdd(t) =>
      /\ last'[t].rank = batch_order_counts[last'[t].batch] + 1
      /\ batch_order_counts' = batch_order_counts
      /\ ~last'[t].ret =>
           IF t = 0 THEN mpc' \notin {"t1commit", "t2commit"} ELSE pc'[t] # "commit"

\* C18 (every assignment attempt uses the current next rank): each
\* addOrderToBatch call, in the main pass and in both tail passes, is made with
\* the ledger counter + 1 of its batch at the moment the call starts; a failed
\* call changes no counter, so the next attempt for the batch has the same rank.
C18_AttemptUsesNextRank == [][RankIsNext]_vars

\* C18, for a batch table whose rows carry pairwise different batch names.
C18_AttemptUsesNextRankUniqueNames == [][UniqueNames => RankIsNext]_vars

\* the threads whose addOrderToBatch call for batch b returned success and whose
\* increment of the ledger is still to come
AwaitingCommit(b) ==
  {t \in 0..MaxThreads :
     /\ last[t].called /\ last[t].ret /\ ~last[t].committed /\ last[t].batch = b
     /\ IF t = 0 THEN mpc \in {"t1commit", "t2commit"} ELSE pc[t] = "commit"}

\* C19 (commit counts exactly the successes): at every point the ledger counter
\* of a batch plus the successful calls whose increment is still to come equals
\* the number of addOrderToBatch calls for the batch that returned success, so
\* at the end of the run the two are equal, also when workers hold rows of the
\* same batch name; and a counter changes only by +1, in the step of a thread
\* whose call for that batch has just returned success.
C19_CommitCountsSuccesses ==
  /\ [](\A b \in BatchNames :
          /\ batch_order_counts[b] + Cardinality(AwaitingCommit(b)) = addOK[b]
          /\ mpc = "done" => batch_order_counts[b] = addOK[b])
  /\ [][\A b \in BatchNames :
          batch_order_counts'[b] # batch_order_counts[b] =>
            /\ batch_order_counts'[b] = batch_order_counts[b] + 1
            /\ \E t \in AwaitingCommit(b) : last'[t].committed]_vars

\* C19 witness: two workers on rows of the same batch name have both had a
\* success and both increments are in the counter.
C19_Witness ==
  \E w1, w2 \in Threads :
    /\ w1 # w2 /\ Active(w1) /\ Active(w2) /\ BatchOf(w1) = BatchOf(w2)
    /\ last[w1].committed /\ last[w2].committed
    /\ batch_order_counts[BatchOf(w1)] = 2 /\ addOK[BatchOf(w1)] = 2

\* C20 (the same batch name is never processed concurrently): at no time are
\* two workers inside _process_single_batch_row on rows with the same batch name.
C20_SameNameNeverConcurrent ==
  \A w1, w2 \in Threads :
    (w1 # w2 /\ Active(w1) /\ Active(w2)) => BatchOf(w1) # BatchOf(w2)

\* C20, for a batch table whose rows carry pairwise different batch names.
C20_SameNameNeverConcurrentUniqueNames == UniqueNames => C20_SameNameNeverConcurrent

\* sales order so is listed in a row of batch b in the sequence of rows rows
ListedIn(rows, b, so) ==
  \E i \in 1..Len(rows) :
    rows[i].PPG_BatchName = b /\ InSeq(so, Listed(rows[i].ordersBatched))

\* every entry of every shard row is still in a row of that batch in the same
\* shard after the step, and the combined output lists all entries of all shards
KeepsEntries ==
  /\ \A w \in Threads : \A b \in BatchNames : \A so \in SONames :
       ListedIn(shard[w], b, so) => ListedIn(shard'[w], b, so)
  /\ mpc' = "done" =>
       \A w \in Threads : \A b \in BatchNames : \A so \in SONames :
         ListedIn(shard'[w], b, so) => ListedIn(combined', b, so)

\* C21 (append-only ordersBatched): a sales order listed in the persisted row
\* of a batch stays listed in that batch's row through every later main-pass
\* write and tail merge, and is listed in the combined output.
C21_AppendOnly == [][KeepsEntries]_vars

\* C21, for a batch table whose rows carry pairwise different batch names.
C21_AppendOnlyUniqueNames == [][UniqueNames => KeepsEntries]_vars

\* the shard rows <<shard, row>> of batch b
ShardRowsOf(b) ==
  {x \in Threads \X (1..MaxUnits) :
     x[2] <= Len(shard[x[1]]) /\ shard[x[1]][x[2]].PPG_BatchName = b}

\* how often so is listed in a csv
TimesListed(csv, so) ==
  Cardinality({k \in 1..Len(Listed(csv)) : Listed(csv)[k] = so})

\* the sales orders of batch b that a tail pass has assigned and committed
TailSuccesses(b) ==
  {so \in SONames :
     /\ InSeq(so, deferred_map[b]) \/ InSeq(so, deferred_create_map[b])
     /\ \E i \in 1..Len(commits[b]) : commits[b][i].so = so}

\* C22 (tail successes reach the output): when the shards are about to be
\* combined, a batch with a tail success has a shard row, every success of tail
\* pass 1 and tail pass 2 is listed exactly once in each shard row that holds its
\* batch, and soCount of every shard row is the number of its entries.
C22_TailSuccessesMerged ==
  mpc = "combine" =>
    /\ \A b \in BatchNames : \A so \in TailSuccesses(b) :
         /\ ShardRowsOf(b) # {}
         /\ \A x \in ShardRowsOf(b) :
              TimesListed(shard[x[1]][x[2]].ordersBatched, so) = 1
    /\ \A w \in Threads : \A i \in 1..Len(shard[w]) :
         shard[w][i].soCount = Len(Listed(shard[w][i].ordersBatched))

\* C22 witness: a row of the second worker's shard lists a success of tail pass
\* 1 and a success of tail pass 2, and the shards are about to be combined.
C22_Witness ==
  /\ mpc = "combine"
  /\ \E b \in BatchNames : \E i \in 1..Len(shard[2]) :
       /\ shard[2][i].PPG_BatchName = b /\ shard[2][i].soCount = 2
       /\ deferred_map[b] # <<>> /\ deferred_create_map[b] # <<>>
       /\ Cardinality(TailSuccesses(b)) = 2

\* the sales orders in a deferred map
Deferred(m) == {so \in SONames : \E b \in BatchNames : InSeq(so, m[b])}

\* the run has ended, by returning or by an exception
RunEnded == mpc \in {"done", "aborted"}

\* no sales order is taken up twice by the tail passes or handed to
\* addOrderToBatch more than twice, and only deferred ones are taken up
VisitedAtMostOnce ==
  \A i \in SOIds :
    /\ tailVisits[i] <= 1 /\ addCalls[i] <= 2
    /\ tailVisits[i] = 1 =>
         SOName(i) \in Deferred(deferred_map) \cup Deferred(deferred_create_map)

\* C23 (deferred entries are consumed exactly once): a tail pass adds nothing to
\* either deferred map; no sales order is taken up by the tail passes more than
\* once nor handed to addOrderToBatch more than twice in the run; and when the
\* run has ended every entry of both deferred maps was taken up exactly once.
C23_DeferredConsumedOnce ==
  /\ [](/\ VisitedAtMostOnce
        /\ RunEnded =>
             \A i \in SOIds :
               SOName(i) \in Deferred(deferred_map) \cup Deferred(deferred_create_map)
                 => tailVisits[i] = 1)
  /\ [][mpc # "pool" => UNCHANGED <<deferred_map, deferred_create_map>>]_vars

\* C23, for the runs that no exception ends.
C23_DeferredConsumedOnceIfReturned ==
  /\ [](/\ VisitedAtMostOnce
        /\ mpc = "done" =>
             \A i \in SOIds :
               SOName(i) \in Deferred(deferred_map) \cup Deferred(deferred_create_map)
                 => tailVisits[i] = 1)
  /\ [][mpc # "pool" => UNCHANGED <<deferred_map, deferred_create_map>>]_vars

\* tail pass 2 takes up its next entry in this step
Tail2Step == mpc = "t2" /\ tq # <<>> /\ tq' = Tail(tq)

\* what the step of tail pass 2 did for its entry: create requests sent,
\* addOrderToBatch calls made
Tail2Sent == createReqs500'[SOId(Head(tq)[2])] - createReqs500[SOId(Head(tq)[2])]
Tail2Adds == addCalls'[SOId(Head(tq)[2])] - addCalls[SOId(Head(tq)[2])]

\* the create of tail pass 2 ran and gave back one of these values
Tail2Created(rets) ==
  tailSaw'.wait = "hidden" /\ ~tailSaw'.raised /\ tailSaw'.ret \in rets

\* a create request only after a wait that never saw the order, and one at most
Tail2CreateOnlyIfHidden ==
  Tail2Sent <= 1 /\ (Tail2Sent = 1 => tailSaw'.wait = "hidden")

\* a create that defers again or fails: no call, no commit, ledger unchanged
Tail2NoAddAfterFailedCreate ==
  (tailSaw'.wait = "hidden" /\ (tailSaw'.raised \/ tailSaw'.ret \in {"Defer", "False"}))
    => /\ Tail2Adds = 0 /\ mpc' = "t2"
       /\ batch_order_counts' = batch_order_counts

\* one addOrderToBatch call for the entry, at ledger counter + 1 of its batch
Tail2OneAddAtTailRank ==
  /\ Tail2Adds = 1 /\ last'[0].called
  /\ last'[0].so = Head(tq)[2] /\ last'[0].batch = Head(tq)[1]
  /\ last'[0].rank = NextRank(batch_order_counts, Head(tq)[1])

\* C24 (tail pass 2 creates only when the order stayed invisible): for each
\* deferred-create entry a create request is sent only after a final wait that
\* never saw the order, and at most once; a create that defers again or fails is
\* followed by no addOrderToBatch call and no ledger change; an order seen by the
\* wait, or created (whatever the success answer holds), gets exactly one
\* addOrderToBatch call at the tail rank.
C24_Tail2CreateOnlyIfInvisible ==
  [][Tail2Step =>
       /\ Tail2CreateOnlyIfHidden
       /\ Tail2NoAddAfterFailedCreate
       /\ (tailSaw'.wait = "visible" \/ Tail2Created({"Dict", "EmptyDict", "True"}))
            => Tail2OneAddAtTailRank]_vars

\* C24, for creates whose success answer is not an empty object.
C24_Tail2CreateOnlyIfInvisibleNonEmptyBody ==
  [][Tail2Step =>
       /\ Tail2CreateOnlyIfHidden
       /\ Tail2NoAddAfterFailedCreate
       /\ (tailSaw'.wait = "visible" \/ Tail2Created({"Dict", "True"}))
            => Tail2OneAddAtTailRank]_vars

\* tail pass 1 takes up an entry whose order the re-check finds missing
Tail1Vanished ==
  mpc = "t1" /\ tq # <<>> /\ tq' = Tail(tq) /\ tailSaw'.wait = "missing"

\* C25 (tail pass 1 drops vanished orders): a deferred-assign entry whose order
\* the re-check finds missing gets no addOrderToBatch call (hence no assign and
\* no create-batch request), the ledger, the shards and the pass's successes stay
\* as they are, and the pass goes on with the next entry.
C25_VanishedDropped ==
  [][Tail1Vanished =>
       /\ addCalls' = addCalls /\ ~last'[0].called
       /\ batch_order_counts' = batch_order_counts
       /\ shard' = shard /\ success_map' = success_map
       /\ mpc' = "t1"]_vars

\* an order was found missing while an entry follows it, and the pass went on
\* to an addOrderToBatch call for that next entry
C25_Witness ==
  /\ mpc = "t1commit" /\ tailSaw.wait = "visible"
  /\ \E i \in SOIds :
       /\ tailVisits[i] = 1 /\ addCalls[i] = 1
       /\ SOName(i) \in Deferred(deferred_map)
       /\ SOName(i) # tcur[2]

ReqsOfLine(i) == {k \in 1..Len(call.reqs) : call.reqs[k].line = i}

\* the requests without the batch id, as addOrderToBatch lists them
ReqsListed ==
  [k \in 1..Len(call.reqs) |->
     [line |-> call.reqs[k].line, attempt |-> call.reqs[k].attempt,
      wol |-> call.reqs[k].wol, rank |-> call.reqs[k].rank,
      ok |-> call.reqs[k].ok]]

\* a call followed step by step ends as the operator addOrderToBatch says
StepsAgreeWithAddOrderToBatch ==
  LET a == addOrderToBatch(call.e, call.orderRank)
  IN /\ call.pc = "raised" => a.raised /\ ReqsListed = a.reqs
     /\ call.pc = "returned" =>
          /\ ~a.raised /\ a.ret = call.ret /\ a.firstOK = call.first_line_ok
          /\ ReqsListed = a.reqs
          /\ a.firstTries = Cardinality(ReqsOfLine(1))

\* C27 (later-line failures do not abort): a call whose first work-order-line
\* was assigned returns True, whatever the later lines answer, and has sent at
\* least one assign request for every later line, also for the lines after a
\* later line that failed both attempts.
C27_LaterLineFailuresDoNotAbort ==
  (call.pc = "returned" /\ call.first_line_ok) =>
    /\ call.ret
    /\ \A i \in 2..Len(call.e.lines) : ReqsOfLine(i) # {}

\* three lines, the first assigned, the second and third failed both attempts
C27_Witness ==
  /\ call.pc = "returned" /\ call.first_line_ok /\ call.ret
  /\ Len(call.e.lines) = 3
  /\ call.e.lines[2] = "fail" /\ call.e.lines[3] = "fail"
  /\ Cardinality(ReqsOfLine(2)) = 2 /\ Cardinality(ReqsOfLine(3)) = 2

\* the work-order-line a request went to: the row's own listed one, the second
\* listed one, or one that was not listed (0)
WolOf(req) ==
  CASE req.wol = "listed" -> req.line
    [] req.wol = "listed_later" -> 2
    [] OTHER -> 0

\* the re-fetches of a call: at most one, right after the failed first attempt
\* on the first row, and all requests carry the caller's rank and one batch id
SameRankOneRefetch ==
  /\ \A k \in 1..Len(call.reqs) :
       /\ call.reqs[k].rank = call.orderRank
       /\ call.reqs[k].batch_id = "WorkorderId"
  /\ Len(call.refetches) <= 1
  /\ \A k \in 1..Len(call.refetches) :
       /\ call.refetches[k] = <<1, 1>>
       /\ call.reqs[1].line = 1 /\ call.reqs[1].attempt = 1 /\ ~call.reqs[1].ok

\* C28 (bounded assign attempts): at every point of an addOrderToBatch call each
\* work-order-line has received at most 2 assign requests, every request
\* carries the rank the caller passed and the one batch id read before the
\* loop, and the lines were re-fetched at most once, and then right after the
\* failed first attempt on the first line.
C28_BoundedAssignAttempts ==
  call.pc # "none" =>
    /\ \A id \in 0..MaxCallLines :
         Cardinality({k \in 1..Len(call.reqs) : WolOf(call.reqs[k]) = id}) <= MaxTries
    /\ SameRankOneRefetch

\* C28, counting the requests of each row of the line loop instead of the
\* requests each work-order-line receives.
C28_BoundedAssignAttemptsPerRow ==
  call.pc # "none" =>
    /\ \A i \in 1..MaxCallLines : Cardinality(ReqsOfLine(i)) <= MaxTries
    /\ SameRankOneRefetch

\* s is t with some entries left out, the others in t's order
RECURSIVE IsSubseq(_, _)
IsSubseq(s, t) ==
  IF s = <<>> THEN TRUE
  ELSE IF t = <<>> THEN FALSE
  ELSE IF Head(s) = Head(t) THEN IsSubseq(Tail(s), Tail(t))
  ELSE IsSubseq(s, Tail(t))

\* the shard row lists sales orders of a unit of its batch name in input order,
\* and its i-th entry was committed at rank i
InInputOrderAtRankI(r) ==
  LET entries == Listed(r.ordersBatched)
  IN /\ \E u \in 1..Len(batches) :
          /\ batches[u].PPG_BatchName = r.PPG_BatchName
          /\ IsSubseq(entries, _safe_split_docnums(batches[u].DocNums))
     /\ \A i \in 1..Len(entries) :
          \E k \in 1..Len(commits[r.PPG_BatchName]) :
            commits[r.PPG_BatchName][k] = [so |-> entries[i], rank |-> i]

\* C29 (in-order processing within a batch): during the main pass and when it
\* has ended, the ordersBatched of every persisted row is a subsequence of the
\* input list of its batch in input order, and its i-th entry was assigned at
\* rank i.
C29_InOrderAtRankI ==
  mpc = "pool" =>
    \A w \in Threads : \A k \in 1..Len(shard[w]) : InInputOrderAtRankI(shard[w][k])

\* C29, for a batch table whose rows carry pairwise different batch names.
C29_InOrderAtRankIUniqueNames ==
  (UniqueNames /\ mpc = "pool") =>
    \A w \in Threads : \A k \in 1..Len(shard[w]) : InInputOrderAtRankI(shard[w][k])

\* thread t (0 the main thread) is at a step that holds remote calls or sleeps:
\* cleanup and create, addOrderToBatch, the re-check and wait of the tail passes
AtRemoteStep(t) ==
  IF t = 0 THEN mpc \in {"t1", "t2"} /\ tq # <<>>
  ELSE pc[t] \in {"create", "add"}

\* thread t is inside a with block of the lock: at the peek or at an increment
InLockSection(t) ==
  IF t = 0 THEN mpc \in {"t1commit", "t2commit"}
  ELSE pc[t] \in {"peek", "commit"}

\* C30 (the ledger lock is never held across a remote call): the thread that
\* holds the lock is at the counter read or the counter increment and nowhere
\* else, so no thread is at a create, assign, snapshot or wait step while it
\* holds the lock and a thread that waits for the lock waits for a counter
\* operation only; and the step that holds the lock changes nothing but the
\* ledger, the holder's next rank and its bookkeeping, and releases the lock.
C30_LockOnlyAroundCounter ==
  /\ [](\A t \in 0..MaxThreads :
          lock = t => InLockSection(t) /\ ~AtRemoteStep(t))
  /\ [][\A t \in 0..MaxThreads :
          (lock = t /\ lock' # t) =>
             /\ lock' = Free
             /\ ~InLockSection(t)'
             /\ UNCHANGED <<deferred_map, deferred_create_map, shard, df_errors,
                            errFile, createReqs500, addCalls, createHttp,
                            tailSaw>>]_vars

\* one worker holds the lock for its increment while the other is about to
\* make its addOrderToBatch call
C30_Witness ==
  \E w1, w2 \in Threads :
    /\ w1 # w2 /\ lock = w1 /\ pc[w1] = "commit"
    /\ AtRemoteStep(w2) /\ pc[w2] = "add"

\* row u of the table has been taken from the queue
Taken(u) == dequeues[u] >= 1

\* row v comes before row u in the dispatch order: earlier due date, or the
\* same due date (or no due dates at all) and the smaller batch name
DispatchedBefore(v, u) ==
  LET due(i) == IF HasDueDate(batches) THEN batches[i].minDocDueDate ELSE 0
  IN \/ due(v) < due(u)
     \/ /\ due(v) = due(u)
        /\ NameRank(batches[v].PPG_BatchName) < NameRank(batches[u].PPG_BatchName)

\* C31 (FIFO dispatch in sorted order): the queue holds every row of the table
\* before any worker has taken one, and whenever a worker takes a row, every row
\* that sorts before it (due date ascending, then batch name ascending; batch
\* name only without a due-date column) has been taken already, whichever
\* workers are racing for the queue.
C31_DispatchInSortedOrder ==
  /\ []((\A u \in 1..Len(batches) : ~Taken(u)) =>
          /\ Len(q) = Len(batches)
          /\ \A w \in Threads : pc[w] \in {"idle", "off"})
  /\ [][\A u \in 1..Len(batches) :
          (~Taken(u) /\ Taken(u)') =>
             \A v \in 1..Len(batches) : DispatchedBefore(v, u) => Taken(v)]_vars

\* two workers have each taken a row, and the row listed second in the table
\* was due earlier than the first
C31_Witness ==
  /\ HasDueDate(batches)
  /\ batches[2].minDocDueDate < batches[1].minDocDueDate
  /\ NameRank(batches[1].PPG_BatchName) < NameRank(batches[2].PPG_BatchName)
  /\ pc[1] = "peek" /\ pc[2] = "peek" /\ row[1] = 2 /\ row[2] = 1

\* the step rewrites shard w
Written(w) == shard'[w] # shard[w]

\* C32 (exclusive shard ownership): min(num_threads, number of rows) workers
\* exist and a thread that was not started has no shard; a shard changes
\* during the main pass only in the persist step of the worker of the same
\* number, which changes no other shard, and after the main pass only in a step
\* of the main thread taken when every worker has returned.
C32_ExclusiveShardOwnership ==
  /\ [](/\ Cardinality({w \in Threads : pc[w] # "off"})
             = Min(num_threads, Len(batches))
        /\ \A w \in Threads : pc[w] = "off" => shard[w] = <<>>)
  /\ [][\A w \in Threads :
          Written(w) =>
            \/ /\ mpc = "pool" /\ mpc' = "pool"
               /\ pc[w] = "persist" /\ pc'[w] # "persist"
               /\ \A v \in Threads \ {w} : ~Written(v) /\ pc'[v] = pc[v]
            \/ /\ mpc \in {"t1", "t2"} /\ mpc' # mpc
               /\ PoolDrained /\ pc' = pc]_vars

\* both workers have written their shard, and a tail pass has then added a
\* late success to one of them
C32_Witness ==
  /\ mpc = "t2begin" /\ shard[1] # <<>> /\ shard[2] # <<>>
  /\ \E b \in BatchNames : \E so \in SONames :
       /\ InSeq(so, success_map[b])
       /\ \E w \in Threads : ListedIn(shard[w], b, so)

\* C33 (best-effort cleanup): when deAllocateOrder or deleteOrder has used up
\* its rounds and returned False, createOrder is still called for the sales
\* order in the same step, and the step records an error row only when
\* createOrder itself failed or raised: after a true value the worker goes on
\* to the assignment, after DEFER_CREATE the order is deferred, both without
\* an error row.
C33_BestEffortCleanup ==
  [][cleanupSaw' # "none" =>
       \E w \in Threads :
         /\ pc[w] = "create"
         /\ cleanupSaw' # "skipped"
         /\ cleanupSaw' = "ok" => pc'[w] = "add" /\ df_errors' = df_errors
         /\ cleanupSaw' = "defer" =>
               /\ df_errors' = df_errors
               /\ InSeq(CurSO(w), deferred_create_map'[BatchOf(w)])
         /\ df_errors' # df_errors => cleanupSaw' \in {"failed", "raised"}]_vars

\* the cleanup gave up on an order that then disappeared: the create request
\* was sent and accepted, and the worker goes on to the assignment with no
\* error row
C33_Witness ==
  \E w \in Threads :
    /\ pc[w] = "add" /\ cleanupSaw = "ok" /\ df_errors[w] = <<>>
    /\ createHttp[SOId(CurSO(w))] = "2xx"

\* C34 (a remote batch is created once per batch name): createBatch sends a
\* create-batch request only in a round whose snapshot read did not show the
\* batch, and over all createBatch calls for one batch name at most one
\* create-batch request is sent, however long the snapshot lags.
C34_BatchCreatedOnce ==
  /\ [](call.kind = "createBatch" => call.reqs <= 1)
  /\ [][(call.kind = "createBatch" /\ call.reqs' # call.reqs) =>
          call.pc = "poll_send" /\ ~call.shown]_vars

\* the part that holds: a create-batch request is sent only after a snapshot
\* read of the same round that did not show the batch, at most once per round
\* and at most 61 times per call
C34_CreateRequestOnlyIfHidden ==
  /\ [](call.kind = "createBatch" =>
          /\ call.count <= LastRound + 1
          /\ call.reqs <= call.ncalls * (LastRound + 1))
  /\ [][(call.kind = "createBatch" /\ call.reqs' # call.reqs) =>
          /\ call.pc = "poll_send" /\ ~call.shown
          /\ call.reqs' = call.reqs + 1]_vars

\* C35 (the run terminates): when every call returns, so that no exception
\* leaves tail pass 1, the run reaches the combine step and ends after it; a
\* worker that finds the queue empty returns, and a tail pass only ever
\* removes the head of its work list, so that no entry is put back.
C35_RunTerminates ==
  /\ [](mpc # "aborted") => <>(mpc = "done")
  /\ [][/\ (mpc' = "done" /\ mpc # "done") => mpc = "combine"
        /\ (mpc \in {"t1", "t2"} /\ tq' # tq) => tq # <<>> /\ tq' = Tail(tq)
        /\ \A w \in Threads :
             (pc[w] = "idle" /\ q = <<>> /\ pc'[w] # pc[w]) => pc'[w] = "done"]_vars

\* the run has ended after both tail passes had an entry to visit
C35_Witness ==
  /\ mpc = "done"
  /\ \E i, j \in SOIds : i # j /\ tailVisits[i] = 1 /\ tailVisits[j] = 1
  /\ \E i \in SOIds : createReqs500[i] >= 1

\* the loop bounds C35 names: the deallocate, delete and create-batch loops
\* make at most 61 rounds in a call, and give up with False exactly after the
\* 61st
C35_PollRoundsBounded ==
  /\ call.count <= LastRound + 1
  /\ (call.pc = "returned" /\ ~call.ret) => call.count = LastRound + 1
  /\ call.pc = "poll_send" => call.count <= LastRound

\* the sales orders committed for batch b, in the order of their commits: the
\* main pass first, then tail pass 1, then tail pass 2
CommitOrder(b) == [i \in 1..Len(commits[b]) |-> commits[b][i].so]

\* the final rows of batch b list, together, every committed sales order, and
\* each listed sales order stands at the position that was its committed rank
PositionIsRank(b) ==
  /\ \A k \in 1..Len(commits[b]) : ListedIn(combined, b, commits[b][k].so)
  /\ \A r \in 1..Len(combined) :
       combined[r].PPG_BatchName = b =>
         LET entries == Listed(combined[r].ordersBatched)
         IN \A i \in 1..Len(entries) :
              \E k \in 1..Len(commits[b]) :
                commits[b][k] = [so |-> entries[i], rank |-> i]

\* C36 (position equals rank): when the run has ended, for every batch the
\* position of each sales order in the final ordersBatched is the rank at which
\* its assignment was committed, and the list is the sequence of the commits:
\* main-pass successes, then those of tail pass 1, then those of tail pass 2.
C36_PositionEqualsRank ==
  mpc = "done" =>
    \A b \in BatchNames :
      /\ PositionIsRank(b)
      /\ \A r \in 1..Len(combined) :
           combined[r].PPG_BatchName = b =>
             Listed(combined[r].ordersBatched) = CommitOrder(b)

\* C36, for a batch table whose rows carry pairwise different batch names.
C36_PositionEqualsRankUniqueNames ==
  (UniqueNames /\ mpc = "done") =>
    \A b \in BatchNames :
      /\ PositionIsRank(b)
      /\ \A r \in 1..Len(combined) :
           combined[r].PPG_BatchName = b =>
             Listed(combined[r].ordersBatched) = CommitOrder(b)

\* the four places a sales order of batch b can be in after the main pass, as
\* a sequence of truth values: a persisted row of b, the deferred-assign map,
\* the deferred-create map, the error table
Places(b, so) ==
  << \E w \in Threads : ListedIn(shard[w], b, so),
     InSeq(so, deferred_map[b]),
     InSeq(so, deferred_create_map[b]),
     \E w \in Threads : \E k \in 1..Len(df_errors[w]) :
       df_errors[w][k].PPG_BatchName = b /\ df_errors[w][k].soNum = so >>

InExactlyOnePlace(b, so) ==
  Cardinality({k \in 1..4 : Places(b, so)[k]}) = 1

\* C37 (main-pass outcomes partition the input): when the pool has drained,
\* every sales order of every unit of the table is in exactly one of its
\* batch's ordersBatched, the deferred-assign map, the deferred-create map and
\* the error table.
C37_OutcomesPartitionInput ==
  (mpc = "pool" /\ PoolDrained) =>
    \A u \in 1..Len(batches) :
      LET unit == _safe_split_docnums(batches[u].DocNums)
      IN \A k \in 1..Len(unit) :
           InExactlyOnePlace(batches[u].PPG_BatchName, unit[k])

\* C37, for a batch table whose rows carry pairwise different batch names.
C37_OutcomesPartitionInputUniqueNames ==
  (UniqueNames /\ mpc = "pool" /\ PoolDrained) =>
    \A u \in 1..Len(batches) :
      LET unit == _safe_split_docnums(batches[u].DocNums)
      IN \A k \in 1..Len(unit) :
           InExactlyOnePlace(batches[u].PPG_BatchName, unit[k])

\* how often so stands in a list
Occurrences(entries, so) == Cardinality({k \in 1..Len(entries) : entries[k] = so})

HasErrorRow(so) ==
  \E w \in Threads : \E k \in 1..Len(df_errors[w]) : df_errors[w][k].soNum = so

\* what the main pass did with sales order i, told from the calls and rows it
\* left: an assignment that was called, not committed and left no error row
\* was deferred; a sales order with neither call nor error row had its create
\* deferred
AssignDeferred(i) ==
  addCalls[i] >= 1 /\ ~Committed(SOName(i)) /\ ~HasErrorRow(SOName(i))

CreateDeferred(i) == addCalls[i] = 0 /\ ~HasErrorRow(SOName(i))

\* C38 (no deferral is lost under concurrency): a worker adds to a deferred
\* map in its create or assign step, never while it holds the counter lock,
\* and when the pool has drained every sales order whose assignment or create
\* was deferred in the main pass stands exactly once in the map of that kind
\* under its batch name, and nowhere else in the two maps, whichever way the
\* workers were interleaved.
C38_NoDeferralLost ==
  /\ []((mpc = "pool" /\ PoolDrained) =>
          \A u \in 1..Len(batches) :
            LET unit == _safe_split_docnums(batches[u].DocNums)
                b == batches[u].PPG_BatchName
            IN \A k \in 1..Len(unit) :
                 LET so == unit[k]
                     inAssign == Occurrences(deferred_map[b], so)
                     inCreate == Occurrences(deferred_create_map[b], so)
                 IN /\ AssignDeferred(SOId(so)) => inAssign = 1 /\ inCreate = 0
                    /\ CreateDeferred(SOId(so)) => inCreate = 1 /\ inAssign = 0
                    /\ \A c \in BatchNames \ {b} :
                         /\ Occurrences(deferred_map[c], so) = 0
                         /\ Occurrences(deferred_create_map[c], so) = 0)
  /\ [][(mpc = "pool" /\ (deferred_map' # deferred_map
                            \/ deferred_create_map' # deferred_create_map)) =>
          \E w \in Threads :
            /\ pc[w] \in {"create", "add"} /\ pc'[w] = "persist"
            /\ lock # w /\ lock' = lock]_vars

\* two workers have each deferred the assignment of a sales order of the same
\* batch name, and both stand in the list of that name
C38_Witness ==
  /\ mpc = "pool" /\ PoolDrained
  /\ shard[1] # <<>> /\ shard[2] # <<>>
  /\ \E b \in BatchNames : Len(deferred_map[b]) = 2

====
